---- MODULE Spec2Model ----
(***************************************************************************)
(* Engagement database client (src/engagement_database): the write         *)
(* coordinator (set_message, restore_doc, delete_doc,                      *)
(* delete_message_and_history, restore_history_entry,                      *)
(* set_command_log_entry), the caller-owned batch / transaction, and the   *)
(* batched readers get_messages and get_history, over a Firestore-like     *)
(* document store with atomic commits and a store-assigned write time;     *)
(* the data models' to_dict / from_dict; and the Google Drive client       *)
(* wrapper's _auto_retry and update_or_create                              *)
(* (src/storage/google_drive).                                             *)
(***************************************************************************)
EXTENDS Integers, Sequences, FiniteSets, TLC

VARIABLES store, clock, nextUuid, tx, del, scan, ghost, lastOp, obs, drive, dashboard, tool,
          origins

vars == <<store, clock, nextUuid, tx, del, scan, ghost, lastOp, obs, drive, dashboard, tool, origins>>

(* ------------------------------ bounds --------------------------------- *)
MaxMessageIds == 2
MaxCalls == 3
MaxStaged == 3
MaxBatchSize == 2
MaxClientCalls == 2
MaxRetries == 2
MaxDriveCalls == 2
MaxDuplicates == 2
MaxWritesWhileReading == 1
MaxPrompts == 2
MaxDashboardCalls == 3
MaxOrigins == 2

(* --------------------------- program constants ------------------------- *)
None == -1
SERVER_TIMESTAMP == -2
DatabasePath == "databases/test/"

MessageStatuses == {"live", "stale", "archived", "anonymised"}
MessageDirections == {"in", "out"}
MessageDocType == "message"

(* ------------------------------ inputs --------------------------------- *)
MessageIds == 1..MaxMessageIds
Datasets == {"d1", "d2"}
InputStatuses == {"live", "deleted"}
\* the caller's last_updated: unset, an old time, a time in the future
InputLastUpdated == {None, 0, 9}
Details == {"primitives", "object"}
BatchSizes == {1, MaxBatchSize}
NoLimit == 0
NoFilter == [where |-> "any", order_by |-> "none", limit |-> NoLimit]
Filters == {NoFilter,
            [NoFilter EXCEPT !.where = "d1"],
            [NoFilter EXCEPT !.order_by = "dataset"],
            [NoFilter EXCEPT !.limit = 1]}

\* position of a field's value in the store's ordering of that field
FieldRank(field, v) ==
    IF field = "dataset" THEN (IF v = "d1" THEN 1 ELSE 2) ELSE v

(* ------------------------------ paths ---------------------------------- *)
MessageRef(message_id) == <<"messages", message_id>>
HistoryEntryRef(history_entry_id) == <<"history", history_entry_id>>
RefPath(ref) == <<DatabasePath, ref[1], ref[2]>>
LocalPathForRef(ref) == <<"", RefPath(ref)[2], RefPath(ref)[3]>>

(* ------------------------------ data models ---------------------------- *)
Message(message_id, text, direction, status, dataset, last_updated) ==
    [message_id |-> message_id, text |-> text, direction |-> direction,
     status |-> status, dataset |-> dataset, last_updated |-> last_updated]

\* a constructor without its assertions
AcceptsAnyMessage(m) == TRUE

\* the constructor's assertions
MessageValid(m) ==
    /\ m.status \in MessageStatuses
    /\ m.direction \in MessageDirections

MessageToDict(m) ==
    [message_id |-> m.message_id, text |-> m.text, direction |-> m.direction,
     status |-> m.status, dataset |-> m.dataset, last_updated |-> m.last_updated]

MessageFromDict(d) ==
    Message(d.message_id, d.text, d.direction, d.status, d.dataset, d.last_updated)

MessageCopy(m) == MessageFromDict(MessageToDict(m))

HistoryEntryOrigin(origin_name, details) ==
    [origin_name |-> origin_name, details |-> details]

\* a validation that lets every details value through
AcceptsAnyDetails(origin) == TRUE

\* json.dumps(details) succeeds
ValidateDetails(origin) == origin.details = "primitives"

OriginToDict(origin) ==
    [origin_name |-> origin.origin_name, details |-> origin.details]

HistoryEntry(db_update_path, updated_doc, origin, timestamp, history_entry_id) ==
    [history_entry_id |-> history_entry_id, db_update_path |-> db_update_path,
     updated_doc |-> updated_doc, origin |-> origin, timestamp |-> timestamp,
     doc_type |-> MessageDocType]

HistoryEntryToDict(h) ==
    [history_entry_id |-> h.history_entry_id, db_update_path |-> h.db_update_path,
     updated_doc |-> MessageToDict(h.updated_doc), origin |-> OriginToDict(h.origin),
     timestamp |-> h.timestamp, doc_type |-> h.doc_type]

(* ------------------------------ the store ------------------------------ *)
\* documents of one collection
Collection(s, coll) == {s[p] : p \in {q \in DOMAIN s : q[1] = coll}}
MessagesOf(s) == Collection(s, "messages")
HistoryOf(s) == Collection(s, "history")

SetOp(ref, doc) == [op |-> "set", ref |-> ref, doc |-> doc]
DeleteOp(ref) == [op |-> "delete", ref |-> ref, doc |-> <<>>]

\* the store replaces the write-time sentinel by the commit time
ResolveMessage(d, t) ==
    IF d.last_updated = SERVER_TIMESTAMP THEN [d EXCEPT !.last_updated = t] ELSE d

ResolveHistory(d, t) ==
    [d EXCEPT !.timestamp = IF @ = SERVER_TIMESTAMP THEN t ELSE @,
              !.updated_doc = ResolveMessage(@, t)]

Resolve(d, t) ==
    IF "doc_type" \in DOMAIN d THEN ResolveHistory(d, t) ELSE ResolveMessage(d, t)

\* the writes of one commit are applied in order, all at write time t: the last write to a
\* path decides what the path holds
ApplyWrites(s, ws, t) ==
    LET written == {ws[i].ref : i \in 1..Len(ws)}
        LastWrite(p) == ws[CHOOSE i \in 1..Len(ws) :
                              ws[i].ref = p /\ \A j \in (i + 1)..Len(ws) : ws[j].ref # p]
        kept == {p \in DOMAIN s \cup written : p \in written => LastWrite(p).op = "set"}
    IN [p \in kept |-> IF p \in written THEN Resolve(LastWrite(p).doc, t) ELSE s[p]]

(* ------------------------------ queries -------------------------------- *)
\* a query on a collection: where clauses, order_by fields, limit, cursor
CollectionQuery(coll) ==
    [coll |-> coll, wheres |-> {}, orders |-> <<>>, limit |-> NoLimit, cursor |-> <<>>]

QueryWhere(q, field, value) == [q EXCEPT !.wheres = @ \cup {<<field, value>>}]
QueryOrderBy(q, field) == [q EXCEPT !.orders = Append(@, field)]
\* limit() replaces any limit set before
QueryLimit(q, n) == [q EXCEPT !.limit = n]
\* a page query issued again as it is, without the cursor
QueryWithoutCursor(q, d) == q

\* the cursor takes the value of every order_by field from the given document
QueryStartAfter(q, d) ==
    [q EXCEPT !.cursor = [i \in 1..Len(q.orders) |-> FieldRank(q.orders[i], d[q.orders[i]])]]

\* a caller's filter, a chain of where / order_by / limit constraints
FirestoreQueryFilter(f, q) ==
    LET q1 == IF f.where = "any" THEN q ELSE QueryWhere(q, "dataset", f.where)
        q2 == IF f.order_by = "none" THEN q1 ELSE QueryOrderBy(q1, f.order_by)
    IN IF f.limit = NoLimit THEN q2 ELSE QueryLimit(q2, f.limit)

LexLess(a, b) ==
    \E i \in 1..Len(a) :
        /\ i <= Len(b)
        /\ a[i] < b[i]
        /\ \A j \in 1..(i - 1) : a[j] = b[j]

Matches(d, q) == \A w \in q.wheres : w[1] \in DOMAIN d /\ d[w[1]] = w[2]

\* sort key of the document at path p: the order_by fields, then the document id
OrderKey(s, p, q) ==
    [i \in 1..Len(q.orders) |-> FieldRank(q.orders[i], s[p][q.orders[i]])]

SortKey(s, p, q) == Append(OrderKey(s, p, q), p[2])

AfterCursor(s, p, q) == q.cursor = <<>> \/ LexLess(q.cursor, OrderKey(s, p, q))

\* the first k of the paths ps in query order
SortPaths(s, ps, q, k) ==
    LET placed == {<<Cardinality({o \in ps : LexLess(SortKey(s, o, q), SortKey(s, p, q))}), p>> :
                      p \in ps}
    IN [i \in 1..k |-> (CHOOSE x \in placed : x[1] = i - 1)[2]]

\* query.get(): the matching documents in query order, after the cursor, up to the limit
QueryGet(s, q) ==
    LET ps == {p \in DOMAIN s : /\ p[1] = q.coll
                                /\ Matches(s[p], q)
                                /\ \A i \in 1..Len(q.orders) : q.orders[i] \in DOMAIN s[p]
                                /\ AfterCursor(s, p, q)}
        n == IF q.limit = NoLimit \/ q.limit > Cardinality(ps) THEN Cardinality(ps) ELSE q.limit
        sorted == SortPaths(s, ps, q, n)
    IN [i \in 1..n |-> s[sorted[i]]]

(* ------------------------------ reads ---------------------------------- *)
\* a point lookup that finds no document
GetMessageNeverFound(s, message_id) == <<>>

\* an absent message is the empty sequence
GetMessage(s, message_id) ==
    IF MessageRef(message_id) \in DOMAIN s
    THEN <<MessageFromDict(s[MessageRef(message_id)])>>
    ELSE <<>>

\* a history query on the field and the path that stored entries carry
GetHistoryForMessageByDbUpdatePath(s, message_id) ==
    QueryGet(s, QueryWhere(CollectionQuery("history"), "db_update_path",
                           LocalPathForRef(MessageRef(message_id))))

\* `self._history_ref().where("update_path", "==", message_ref.path)`
GetHistoryForMessage(s, message_id) ==
    QueryGet(s, QueryWhere(CollectionQuery("history"), "update_path",
                           RefPath(MessageRef(message_id))))

\* get_messages without batch_size: one query
GetMessagesUnbatched(s, f) ==
    LET data == QueryGet(s, FirestoreQueryFilter(f, CollectionQuery("messages")))
    IN [i \in 1..Len(data) |-> MessageFromDict(data[i])]

\* a page query ordered by message_id alone
BatchedQueryByIdOnly(f, batch_size) ==
    QueryLimit(QueryOrderBy(FirestoreQueryFilter(f, CollectionQuery("messages")), "message_id"),
               batch_size)

\* a page query ordered by a field that a rewrite can move back: dataset, then message_id
BatchedQueryByDataset(f, batch_size) ==
    QueryLimit(QueryOrderBy(QueryOrderBy(FirestoreQueryFilter(f, CollectionQuery("messages")),
                                         "dataset"), "message_id"), batch_size)

\* the query that every page of a batched get_messages issues
BatchedQuery(f, batch_size) ==
    QueryLimit(QueryOrderBy(QueryOrderBy(FirestoreQueryFilter(f, CollectionQuery("messages")),
                                         "last_updated"), "message_id"), batch_size)

\* the fetched messages left in fetch order
FetchOrder(msgs) == msgs

\* messages.sort(key=last_updated, reverse=True): most recently updated first, messages
\* with equal last_updated in the order they had (the sort is stable)
SortMostRecentFirst(msgs) ==
    LET placed == {<<Cardinality({j \in 1..Len(msgs) :
                          \/ msgs[j].last_updated > msgs[i].last_updated
                          \/ msgs[j].last_updated = msgs[i].last_updated /\ j < i}), i>> :
                      i \in 1..Len(msgs)}
    IN [k \in 1..Len(msgs) |-> msgs[(CHOOSE x \in placed : x[1] = k - 1)[2]]]

\* the loop over the sorted messages: a message whose id was seen is skipped
DeDuplicate(msgs) ==
    LET indexed == [i \in 1..Len(msgs) |-> <<i, msgs[i]>>]
        kept == SelectSeq(indexed,
                          LAMBDA x : \A j \in 1..(x[1] - 1) : msgs[j].message_id # x[2].message_id)
    IN [k \in 1..Len(kept) |-> kept[k][2]]

\* the sorted messages without the de-duplication loop
SortedOnly(msgs) == SortMostRecentFirst(msgs)

DeDuplicatedMessages(msgs) == DeDuplicate(SortMostRecentFirst(msgs))

Ids(msgs) == {msgs[i].message_id : i \in 1..Len(msgs)}

(* ------------------------------ state ---------------------------------- *)
NoTx == [open |-> FALSE, writes |-> <<>>, set_calls |-> 0]
IdleDel == [pc |-> "idle", message_id |-> 0, message |-> <<>>, history_entries |-> <<>>,
            use_tx |-> FALSE]
IdleScan == [pc |-> "idle", filter |-> NoFilter, batch_size |-> 0, last_msg |-> <<>>,
             messages |-> <<>>, queries |-> 0, last_page |-> 0, result |-> <<>>,
             assert_ok |-> TRUE]
NoGhost == [start |-> <<>>, seen |-> {}, rewritten |-> {}, bypassed |-> {}]
\* what a client holds: the origin object it constructed, the arguments and outcome of its
\* last call or construction, the result of its last read, and the message objects it can
\* reach (a reference to one is its place in the sequence)
NoCall == [op |-> "none", n |-> 0, arg |-> <<>>, outcome |-> "ok"]
NoRead == [op |-> "none", n |-> 0, message_id |-> 0, outcome |-> "ok", result |-> <<>>]
NoObs == [origin |-> <<>>, last |-> NoCall, read |-> NoRead, objects |-> <<>>]
\* the Drive folder and a caller of the Drive client wrapper: no _auto_retry is running,
\* no update_or_create has been called
\* how a Drive call ends: an answer, or an exception of a type, with the HTTP status
Answer(type, status) == [type |-> type, status |-> status]
NoException == Answer("none", 0)
NoRetry == [calls |-> 0, failed |-> 0, max_retries |-> 0, backoff_seconds |-> 0,
            slept |-> <<>>, outcome |-> "none", value |-> <<>>, ex |-> NoException,
            args |-> [max_retries |-> 0, backoff_seconds |-> 0]]
NoDrive == [files |-> {}, next_id |-> 1, pc |-> "idle", calls |-> 0,
            args |-> [content |-> "v1", fix_duplicates |-> FALSE, max_retries |-> 0,
                      backoff_seconds |-> 1],
            before |-> {}, target_folder_id |-> <<>>, todo |-> <<>>, existing_file |-> 0,
            retry |-> NoRetry]
\* the Analysis Dashboard project (its Firestore documents and its storage bucket) and a
\* caller of its client: no create_snapshot has been called
NoDashboard == [docs |-> <<>>, blobs |-> {}, pc |-> "idle", calls |-> 0, op |-> "none",
                series_id |-> "", snapshot |-> <<>>, files |-> <<>>, todo |-> <<>>,
                path |-> <<>>, next_id |-> 1, failed_uploads |-> 0, outcome |-> "none"]
\* the deletion tool: the uuid table, and a run of the script that has not started
NoTool == [mappings |-> {}, pc |-> "idle", filtered_mappings |-> {}, asked |-> 0,
           choice |-> <<>>, proceed |-> <<>>, delete_calls |-> 0, deleted |-> {}]
\* the HistoryEntryOrigin class (its defaults, None being the empty sequence), the origin
\* objects a process constructed, and the outcome of its last construction
NoOrigins == [default_user |-> <<>>, default_project |-> <<>>, default_pipeline |-> <<>>,
              default_commit |-> <<>>, objects |-> <<>>, last |-> "none", args |-> <<>>]

Init ==
    /\ store = <<>>
    /\ clock = 0
    /\ nextUuid = 1
    /\ tx = NoTx
    /\ del = IdleDel
    /\ scan = IdleScan
    /\ ghost = NoGhost
    /\ lastOp = [n |-> 0, op |-> "init", tx |-> FALSE, outcome |-> "ok"]
    /\ obs = NoObs
    /\ drive = NoDrive
    /\ dashboard = NoDashboard
    /\ tool = NoTool
    /\ origins = NoOrigins

\* a call of the write coordinator returns (or raises)
Returns(op, use_tx, outcome) ==
    lastOp' = [n |-> lastOp.n + 1, op |-> op, tx |-> use_tx, outcome |-> outcome]

\* the calling process is not inside another call, and owns an open context if it passes one
CanCall(use_tx) ==
    /\ lastOp.n < MaxCalls
    /\ del.pc = "idle"
    /\ use_tx => tx.open /\ Len(tx.writes) < MaxStaged

MessageWrites(ws) == {i \in 1..Len(ws) : ws[i].ref[1] = "messages"}

\* bookkeeping of a running batched scan: the contents of the messages collection at every
\* instant of the scan, the fetched messages a set_message rewrote with another dataset, and
\* the messages written without a write-time stamp or deleted
Observe(ws, s2, t) ==
    IF scan.pc # "paging" THEN ghost
    ELSE [start |-> ghost.start,
          seen |-> ghost.seen \cup {MessagesOf(s2)},
          rewritten |-> ghost.rewritten \cup
              {[message_id |-> ws[i].ref[2], last_updated |-> t] : i \in
                  {j \in MessageWrites(ws) :
                      /\ ws[j].op = "set"
                      /\ ws[j].doc.last_updated = SERVER_TIMESTAMP
                      /\ ws[j].ref[2] \in Ids(scan.messages)
                      /\ ws[j].ref \in DOMAIN store
                      /\ store[ws[j].ref].dataset # ws[j].doc.dataset}},
          bypassed |-> ghost.bypassed \cup
              {ws[i].ref[2] : i \in
                  {j \in MessageWrites(ws) :
                      ws[j].op = "delete" \/ ws[j].doc.last_updated # SERVER_TIMESTAMP}}]

\* the store applies a group of writes in one step, at one new write time
Commit(ws) ==
    LET t == clock + 1
        s2 == ApplyWrites(store, ws, t)
    IN /\ store' = s2
       /\ clock' = t
       /\ ghost' = Observe(ws, s2, t)

Stage(ws) == tx' = [tx EXCEPT !.writes = @ \o ws]

\* write through the caller's context when one is given, else directly
WriteOrStage(w, use_tx) ==
    IF use_tx
    THEN Stage(<<w>>) /\ UNCHANGED <<store, clock, ghost>>
    ELSE Commit(<<w>>) /\ UNCHANGED tx

(* ------------------------------ write coordinator ---------------------- *)
Batch ==
    /\ CanCall(FALSE)
    /\ ~tx.open
    /\ tx' = [NoTx EXCEPT !.open = TRUE]
    /\ Returns("batch", FALSE, "ok")
    /\ UNCHANGED <<store, clock, nextUuid, del, scan, ghost>>

\* the owner commits its context
CommitContext ==
    /\ CanCall(FALSE)
    /\ tx.open
    /\ Commit(tx.writes)
    /\ tx' = NoTx
    /\ Returns("commit", TRUE, "ok")
    /\ UNCHANGED <<nextUuid, del, scan>>

\* a coordinator that leaves every write uncommitted, context given or not
NeverCommits(use_tx) == FALSE

\* a coordinator that commits on every call, also into a context it does not own
AlwaysCommits(use_tx) == TRUE

\* `if transaction is None: transaction = self.batch(); commit_before_returning = True`
CommitBeforeReturning(use_tx) == ~use_tx

\* a copy that keeps the caller's last_updated
UnstampedCopy(message) == MessageCopy(message)

\* a copy that leaves an archived message archived, whatever status the caller gives
StampedCopyKeepingArchived(message) ==
    [MessageCopy(message) EXCEPT
        !.last_updated = SERVER_TIMESTAMP,
        !.status = IF /\ MessageRef(message.message_id) \in DOMAIN store
                      /\ store[MessageRef(message.message_id)].status = "archived"
                   THEN "archived" ELSE @]

\* the stamped copy that set_message writes
StampedCopy(message) == [MessageCopy(message) EXCEPT !.last_updated = SERVER_TIMESTAMP]

MessageWrite(message) == SetOp(MessageRef(message.message_id), MessageToDict(message))

\* a history entry that takes a fixed id in place of a fresh uuid
HistoryEntryWithFixedId(message, origin, uuid) ==
    HistoryEntry(LocalPathForRef(MessageRef(message.message_id)), message, origin,
                 SERVER_TIMESTAMP, 1)

\* HistoryEntry(update_path, updated_doc, origin, timestamp): history_entry_id is a new uuid
HistoryEntryFor(message, origin, uuid) ==
    HistoryEntry(LocalPathForRef(MessageRef(message.message_id)), message, origin,
                 SERVER_TIMESTAMP, uuid)

HistoryWrite(entry) == SetOp(HistoryEntryRef(entry.history_entry_id), HistoryEntryToDict(entry))

\* a set_message that logs the history entry and leaves the message document unwritten
HistoryWriteOnly(message, origin, uuid) ==
    IF ValidateDetails(origin)
    THEN <<HistoryWrite(HistoryEntryFor(StampedCopy(message), origin, uuid))>>
    ELSE <<>>

\* the writes set_message has put on its context when it returns or raises
SetMessageWrites(message, origin, uuid) ==
    IF ValidateDetails(origin)
    THEN <<MessageWrite(StampedCopy(message)),
           HistoryWrite(HistoryEntryFor(StampedCopy(message), origin, uuid))>>
    ELSE <<MessageWrite(StampedCopy(message))>>

\* set_message, from its first line to its return
SetMessageCall(message, origin, use_tx) ==
    /\ IF ~MessageValid(message)
       THEN \* message.copy() raises
            /\ Returns("set_message", use_tx, "error")
            /\ UNCHANGED <<store, clock, nextUuid, tx, ghost>>
       ELSE /\ nextUuid' = nextUuid + 1
            /\ IF ~ValidateDetails(origin)
               THEN \* history_entry.to_dict() raises: nothing is committed
                    /\ Returns("set_message", use_tx, "error")
                    /\ IF CommitBeforeReturning(use_tx)
                       THEN UNCHANGED tx
                       ELSE Stage(SetMessageWrites(message, origin, nextUuid))
                    /\ UNCHANGED <<store, clock, ghost>>
               ELSE /\ Returns("set_message", use_tx, "ok")
                    /\ IF CommitBeforeReturning(use_tx)
                       THEN Commit(SetMessageWrites(message, origin, nextUuid)) /\ UNCHANGED tx
                       ELSE /\ tx' = [tx EXCEPT
                                        !.writes = @ \o SetMessageWrites(message, origin, nextUuid),
                                        !.set_calls = @ + 1]
                            /\ UNCHANGED <<store, clock, ghost>>
    /\ UNCHANGED <<del, scan>>

\* set_message called by the process that makes this client's calls one after the other
SetMessage(message, origin, use_tx) ==
    /\ CanCall(use_tx)
    /\ SetMessageCall(message, origin, use_tx)

\* CommandLogEntry has neither copy() nor timestamp: the call raises at its first line
SetCommandLogEntry(use_tx) ==
    /\ CanCall(use_tx)
    /\ Returns("set_command_log_entry", use_tx, "error")
    /\ UNCHANGED <<store, clock, nextUuid, tx, del, scan, ghost>>

\* a restore that goes the way of set_message: the document and a history entry for it
RestoreDocWithHistory(doc, ref, use_tx) ==
    /\ CanCall(use_tx)
    /\ LET ws == SetMessageWrites(doc, HistoryEntryOrigin("restore", "primitives"), nextUuid)
       IN IF use_tx THEN Stage(ws) /\ UNCHANGED <<store, clock, ghost>>
                    ELSE Commit(ws) /\ UNCHANGED tx
    /\ Returns("restore_doc", use_tx, "ok")
    /\ UNCHANGED <<nextUuid, del, scan>>

RestoreDoc(doc, ref, use_tx) ==
    /\ CanCall(use_tx)
    /\ WriteOrStage(SetOp(ref, MessageToDict(doc)), use_tx)
    /\ Returns("restore_doc", use_tx, "ok")
    /\ UNCHANGED <<nextUuid, del, scan>>

DeleteDocWrite(ref) == DeleteOp(ref)

DeleteDoc(ref, use_tx) ==
    /\ CanCall(use_tx)
    /\ WriteOrStage(DeleteDocWrite(ref), use_tx)
    /\ Returns("delete_doc", use_tx, "ok")
    /\ UNCHANGED <<nextUuid, del, scan>>

RestoreHistoryEntry(entry, use_tx) ==
    /\ CanCall(use_tx)
    /\ IF ValidateDetails(entry.origin)
       THEN /\ WriteOrStage(HistoryWrite(entry), use_tx)
            /\ Returns("restore_history_entry", use_tx, "ok")
       ELSE /\ Returns("restore_history_entry", use_tx, "error")
            /\ UNCHANGED <<store, clock, tx, ghost>>
    /\ UNCHANGED <<nextUuid, del, scan>>

\* delete_message_and_history, its two reads
DeleteMessageAndHistoryRead(message_id, use_tx) ==
    /\ CanCall(use_tx)
    /\ del' = [pc |-> "read", message_id |-> message_id,
               message |-> GetMessage(store, message_id),
               history_entries |-> GetHistoryForMessage(store, message_id),
               use_tx |-> use_tx]
    /\ UNCHANGED <<store, clock, nextUuid, tx, scan, ghost, lastOp>>

\* a cascade that deletes the history entries and leaves the message document
DeletesHistoryOnly(message_id, message, history_entries) ==
    [i \in 1..Len(history_entries) |->
        DeleteDocWrite(HistoryEntryRef(history_entries[i].history_entry_id))]

DeleteMessageAndHistoryWrites(message_id, message, history_entries) ==
    (IF message # <<>> THEN <<DeleteDocWrite(MessageRef(message_id))>> ELSE <<>>)
    \o [i \in 1..Len(history_entries) |->
            DeleteDocWrite(HistoryEntryRef(history_entries[i].history_entry_id))]

\* delete_message_and_history, its deletes and its return
DeleteMessageAndHistoryWrite ==
    /\ del.pc = "read"
    /\ LET ws == DeleteMessageAndHistoryWrites(del.message_id, del.message, del.history_entries)
       IN IF CommitBeforeReturning(del.use_tx)
          THEN Commit(ws) /\ UNCHANGED tx
          ELSE Stage(ws) /\ UNCHANGED <<store, clock, ghost>>
    /\ del' = IdleDel
    /\ Returns("delete_message_and_history", del.use_tx, "ok")
    /\ UNCHANGED <<nextUuid, scan>>

(* ------------------------------ batched reader ------------------------- *)
MessagesFromDicts(data) == [i \in 1..Len(data) |-> MessageFromDict(data[i])]

\* a page loop that ends when a page holds fewer than batch_size items
LoopEndsOnShortPage(batch, batch_size) == Len(batch) < batch_size

\* the page loop ends (last_msg becomes None) when a page holds no item
LoopEnds(batch, batch_size) == Len(batch) = 0

\* last_msg after a page; None is the empty sequence
LastOf(batch) == IF Len(batch) = 0 THEN <<>> ELSE <<batch[Len(batch)]>>

\* a page read from the store as it was when the scan began (a snapshot read)
PageFromScanStart(q) == MessagesFromDicts(QueryGet(ghost.start, q))

\* query.get(): a page is read from the store as it is when the query is issued
Page(q) == MessagesFromDicts(QueryGet(store, q))

\* the state of get_messages after a page: the loop goes on, or the result is returned
AfterPage(f, batch_size, msgs, batch, queries) ==
    [pc |-> IF LoopEnds(batch, batch_size) THEN "done" ELSE "paging",
     filter |-> f, batch_size |-> batch_size,
     last_msg |-> LastOf(batch),
     messages |-> msgs,
     queries |-> queries,
     last_page |-> Len(batch),
     result |-> IF LoopEnds(batch, batch_size) THEN DeDuplicatedMessages(msgs) ELSE <<>>,
     assert_ok |-> \/ ~LoopEnds(batch, batch_size)
                   \/ LET de_duplicated_messages == DeDuplicatedMessages(msgs)
                      IN Len(de_duplicated_messages) = Cardinality(Ids(de_duplicated_messages))]

\* get_messages without batch_size
GetMessagesAll(f) ==
    /\ scan.pc = "idle"
    /\ scan' = [IdleScan EXCEPT !.pc = "done", !.filter = f, !.queries = 1,
                                !.messages = GetMessagesUnbatched(store, f),
                                !.last_page = Len(GetMessagesUnbatched(store, f)),
                                !.result = GetMessagesUnbatched(store, f)]
    /\ ghost' = [NoGhost EXCEPT !.seen = {MessagesOf(store)}, !.start = store]
    /\ UNCHANGED <<store, clock, nextUuid, tx, del, lastOp>>

\* get_messages with batch_size: the first page
GetMessagesFirstPage(f, batch_size) ==
    /\ scan.pc = "idle"
    /\ ghost' = [NoGhost EXCEPT !.seen = {MessagesOf(store)}, !.start = store]
    /\ LET batch == MessagesFromDicts(QueryGet(store, BatchedQuery(f, batch_size)))
       IN scan' = AfterPage(f, batch_size, batch, batch, 1)
    /\ UNCHANGED <<store, clock, nextUuid, tx, del, lastOp>>

\* get_messages with batch_size: one turn of the loop
GetMessagesNextPage ==
    /\ scan.pc = "paging"
    /\ LET q == QueryStartAfter(BatchedQuery(scan.filter, scan.batch_size),
                                MessageToDict(scan.last_msg[1]))
           batch == Page(q)
       IN scan' = AfterPage(scan.filter, scan.batch_size, scan.messages \o batch, batch,
                            scan.queries + 1)
    /\ UNCHANGED <<store, clock, nextUuid, tx, del, ghost, lastOp>>

(* ------------------------------ specification -------------------------- *)
InputMessages ==
    {Message(id, "hello", "in", st, ds, lu) :
        id \in MessageIds, st \in InputStatuses, ds \in Datasets, lu \in InputLastUpdated}

InputOrigins == {HistoryEntryOrigin("sync", dt) : dt \in Details}

\* documents of an earlier export, written before any write of this run
ExportedMessages == {Message(id, "hello", "in", "live", ds, 0) : id \in MessageIds, ds \in Datasets}

ExportedHistoryEntries ==
    {HistoryEntry(LocalPathForRef(MessageRef(m.message_id)), m, o, 0, 0) :
        m \in ExportedMessages, o \in InputOrigins}

DeletableRefs == {MessageRef(id) : id \in MessageIds} \cup {HistoryEntryRef(0)}

\* the write coordinator, called with and without a caller-owned context
Next ==
    \/ Batch /\ UNCHANGED <<obs, drive, dashboard, tool, origins>>
    \/ CommitContext /\ UNCHANGED <<obs, drive, dashboard, tool, origins>>
    \/ \E m \in InputMessages, o \in InputOrigins, use_tx \in BOOLEAN :
          SetMessage(m, o, use_tx) /\ UNCHANGED <<obs, drive, dashboard, tool, origins>>
    \/ \E use_tx \in BOOLEAN : SetCommandLogEntry(use_tx) /\ UNCHANGED <<obs, drive, dashboard, tool, origins>>
    \/ \E d \in ExportedMessages, use_tx \in BOOLEAN :
          RestoreDoc(d, MessageRef(d.message_id), use_tx) /\ UNCHANGED <<obs, drive, dashboard, tool, origins>>
    \/ \E r \in DeletableRefs, use_tx \in BOOLEAN : DeleteDoc(r, use_tx) /\ UNCHANGED <<obs, drive, dashboard, tool, origins>>
    \/ \E h \in ExportedHistoryEntries, use_tx \in BOOLEAN :
          RestoreHistoryEntry(h, use_tx) /\ UNCHANGED <<obs, drive, dashboard, tool, origins>>
    \/ \E id \in MessageIds, use_tx \in BOOLEAN :
          DeleteMessageAndHistoryRead(id, use_tx) /\ UNCHANGED <<obs, drive, dashboard, tool, origins>>
    \/ DeleteMessageAndHistoryWrite /\ UNCHANGED <<obs, drive, dashboard, tool, origins>>

Spec == Init /\ [][Next]_vars

\* the writes of one import batch: one set_message per message of msgs, with uuids from uuid
ImportWrites(msgs, uuid) ==
    [k \in 1..(2 * Len(msgs)) |->
        SetMessageWrites(msgs[(k + 1) \div 2], HistoryEntryOrigin("import", "primitives"),
                         uuid + ((k + 1) \div 2) - 1)[2 - (k % 2)]]

ImportedMessages(n, dataset_of) ==
    [i \in 1..n |-> Message(i, "hello", "in", "live", dataset_of[i], None)]

\* the store after one import batch wrote messages 1..n
ImportedTogether(n, dataset_of) ==
    ApplyWrites(<<>>, ImportWrites(ImportedMessages(n, dataset_of), 1), 1)

\* the store after n batches wrote one message each, message i at time i
RECURSIVE ImportedInTurn(_, _)
ImportedInTurn(n, dataset_of) ==
    IF n = 0 THEN <<>>
    ELSE ApplyWrites(ImportedInTurn(n - 1, dataset_of),
                     ImportWrites(<<ImportedMessages(n, dataset_of)[n]>>, n), n)

\* the store when the reader calls get_messages: messages 1..n, written by one import batch
\* (they share their write time) or by one batch each
ScanInit ==
    /\ \E n \in 0..MaxMessageIds : \E dataset_of \in [1..n -> Datasets] :
       \E together \in BOOLEAN :
          /\ clock = (IF together THEN 1 ELSE n)
          /\ store = (IF together THEN ImportedTogether(n, dataset_of)
                                  ELSE ImportedInTurn(n, dataset_of))
          /\ nextUuid = 1 + n
    /\ tx = NoTx
    /\ del = IdleDel
    /\ scan = IdleScan
    /\ ghost = NoGhost
    /\ lastOp = [n |-> 1, op |-> "commit", tx |-> TRUE, outcome |-> "ok"]
    /\ obs = NoObs
    /\ drive = NoDrive
    /\ dashboard = NoDashboard
    /\ tool = NoTool
    /\ origins = NoOrigins

\* a reader's get_messages, with writers committing between its page fetches
ScanNext ==
    \/ scan.pc = "paging" /\ UNCHANGED <<obs, drive, dashboard, tool, origins>> /\ \E m \in ExportedMessages :
          SetMessage(m, HistoryEntryOrigin("sync", "primitives"), FALSE)
    \/ scan.pc = "paging" /\ UNCHANGED <<obs, drive, dashboard, tool, origins>> /\ \E id \in MessageIds :
          DeleteDoc(MessageRef(id), FALSE)
    \/ \E f \in Filters : GetMessagesAll(f) /\ UNCHANGED <<obs, drive, dashboard, tool, origins>>
    \/ \E f \in Filters, b \in BatchSizes : GetMessagesFirstPage(f, b) /\ UNCHANGED <<obs, drive, dashboard, tool, origins>>
    \/ GetMessagesNextPage /\ UNCHANGED <<obs, drive, dashboard, tool, origins>>

ScanSpec == ScanInit /\ [][ScanNext]_vars

\* Scenario B: the store after one import batch wrote messages 1..n, then one batched
\* get_messages with batch_size 50 and no concurrent write
ScenarioBSizes == 0..130

ScenarioBInit ==
    /\ \E n \in ScenarioBSizes :
          /\ store = ImportedTogether(n, [i \in 1..n |-> "d1"])
          /\ nextUuid = 1 + n
    /\ clock = 1
    /\ tx = NoTx
    /\ del = IdleDel
    /\ scan = IdleScan
    /\ ghost = NoGhost
    /\ lastOp = [n |-> 1, op |-> "commit", tx |-> TRUE, outcome |-> "ok"]
    /\ obs = NoObs
    /\ drive = NoDrive
    /\ dashboard = NoDashboard
    /\ tool = NoTool
    /\ origins = NoOrigins

ScenarioBNext ==
    \/ GetMessagesFirstPage(NoFilter, 50) /\ UNCHANGED <<obs, drive, dashboard, tool, origins>>
    \/ GetMessagesNextPage /\ UNCHANGED <<obs, drive, dashboard, tool, origins>>

ScenarioBSpec == ScenarioBInit /\ [][ScenarioBNext]_vars

(* ------------------------------ a client ------------------------------- *)
\* HistoryEntryOrigin(origin_name, details): the constructor ends with validate_details(),
\* a construction that raises yields no object
NewHistoryEntryOrigin(origin_name, details) ==
    IF ValidateDetails(HistoryEntryOrigin(origin_name, details))
    THEN <<HistoryEntryOrigin(origin_name, details)>>
    ELSE <<>>

\* HistoryEntry.from_dict raises ValueError unless doc_type is the message document kind
UnknownDocType(d) == d.doc_type # MessageDocType

HistoryEntryFromDict(d) ==
    HistoryEntry(d.db_update_path, MessageFromDict(d.updated_doc), d.origin, d.timestamp,
                 d.history_entry_id)

\* [HistoryEntry.from_dict(d.to_dict()) for d in data]: the first unknown doc_type raises
FromDictRaises(data) == \E i \in 1..Len(data) : UnknownDocType(data[i])
HistoryEntriesFromDicts(data) == [i \in 1..Len(data) |-> HistoryEntryFromDict(data[i])]

\* what the client holds when a database call returns in this step: the call's arguments
\* and outcome, and no result of a read made before the call
Called(op, arg) ==
    [obs EXCEPT !.last = [op |-> op, n |-> lastOp'.n, arg |-> arg, outcome |-> lastOp'.outcome],
                !.read = NoRead]

\* the client is not inside a call
ClientIdle == del.pc = "idle"

ClientNewOrigin(details) ==
    /\ ClientIdle
    /\ LET made == NewHistoryEntryOrigin("sync", details)
       IN obs' = [origin |-> IF made = <<>> THEN obs.origin ELSE made,
                  last |-> [op |-> "new_origin", n |-> lastOp.n, arg |-> <<details>>,
                            outcome |-> IF made = <<>> THEN "error" ELSE "ok"],
                  read |-> NoRead, objects |-> obs.objects]
    /\ UNCHANGED <<store, clock, nextUuid, tx, del, scan, ghost, lastOp, drive, dashboard, tool, origins>>

\* details is a plain attribute: the client changes it after the construction
ClientMutateDetails ==
    /\ ClientIdle
    /\ obs.origin # <<>>
    /\ obs.origin[1].details = "primitives"
    /\ obs' = [obs EXCEPT !.origin = <<[@[1] EXCEPT !.details = "object"]>>]
    /\ UNCHANGED <<store, clock, nextUuid, tx, del, scan, ghost, lastOp, drive, dashboard, tool, origins>>

\* set_message, without a transaction, with the origin object the client holds
ClientSetMessage(message) ==
    /\ lastOp.n < MaxClientCalls
    /\ obs.origin # <<>>
    /\ SetMessage(message, obs.origin[1], FALSE)
    /\ obs' = Called("set_message", <<message, obs.origin[1]>>)
    /\ UNCHANGED <<drive, dashboard, tool, origins>>

ClientDeleteMessageAndHistoryRead(message_id) ==
    /\ lastOp.n < MaxClientCalls
    /\ DeleteMessageAndHistoryRead(message_id, FALSE)
    /\ UNCHANGED <<obs, drive, dashboard, tool, origins>>

ClientDeleteMessageAndHistoryWrite ==
    /\ DeleteMessageAndHistoryWrite
    /\ obs' = Called("delete_message_and_history", <<del.message_id>>)
    /\ UNCHANGED <<drive, dashboard, tool, origins>>

ClientGetMessage(message_id) ==
    /\ ClientIdle
    /\ obs' = [obs EXCEPT !.read = [op |-> "get_message", n |-> lastOp.n,
                                    message_id |-> message_id, outcome |-> "ok",
                                    result |-> GetMessage(store, message_id)]]
    /\ UNCHANGED <<store, clock, nextUuid, tx, del, scan, ghost, lastOp, drive, dashboard, tool, origins>>

ClientGetHistoryForMessage(message_id) ==
    /\ ClientIdle
    /\ LET data == GetHistoryForMessage(store, message_id)
       IN obs' = [obs EXCEPT !.read = [op |-> "get_history_for_message", n |-> lastOp.n,
                                       message_id |-> message_id,
                                       outcome |-> IF FromDictRaises(data) THEN "error" ELSE "ok",
                                       result |-> IF FromDictRaises(data) THEN <<>>
                                                  ELSE HistoryEntriesFromDicts(data)]]
    /\ UNCHANGED <<store, clock, nextUuid, tx, del, scan, ghost, lastOp, drive, dashboard, tool, origins>>

\* the messages the client constructed
ClientMessages == {m \in InputMessages : MessageValid(m)}

\* one client that constructs origins, writes, deletes and reads back, every call
\* without a transaction
ClientNext ==
    \/ \E details \in Details : ClientNewOrigin(details)
    \/ ClientMutateDetails
    \/ \E m \in ClientMessages : ClientSetMessage(m)
    \/ \E id \in MessageIds : ClientDeleteMessageAndHistoryRead(id)
    \/ ClientDeleteMessageAndHistoryWrite
    \/ \E id \in MessageIds : ClientGetMessage(id)
    \/ \E id \in MessageIds : ClientGetHistoryForMessage(id)

ClientSpec == Init /\ [][ClientNext]_vars

(* ------------------------------ status changes ------------------------- *)
\* the messages a client constructs, one for every value of MessageStatuses
StatusMessages ==
    {Message(id, "hello", "in", status, "d1", None) : id \in MessageIds, status \in MessageStatuses}

\* a client that constructs an origin and sets messages, each call without a transaction
StatusNext ==
    \/ \E details \in Details : ClientNewOrigin(details)
    \/ \E m \in StatusMessages : ClientSetMessage(m)

StatusSpec == Init /\ [][StatusNext]_vars

(* ------------------------------ the caller's message ------------------- *)
\* set_message that binds no new object to its local name: `message` stays the caller's
SameObject(objects, ref) == <<objects, ref>>

\* `message = message.copy()`: a new object with the fields of the one referred to, and
\* the reference to it
MessageCopyObject(objects, ref) == <<Append(objects, MessageCopy(objects[ref])), Len(objects) + 1>>

\* the objects the caller can reach when set_message(message) has returned or raised:
\* copy() raises for a message its constructor refuses; `message.last_updated =
\* firestore.SERVER_TIMESTAMP` writes the object the local name refers to; the local
\* name is gone with the call
ObjectsAfterSetMessage(objects, ref) ==
    IF ~MessageValid(objects[ref]) THEN objects
    ELSE LET copied == MessageCopyObject(objects, ref)
             stamped == [copied[1] EXCEPT ![copied[2]].last_updated = SERVER_TIMESTAMP]
         IN SubSeq(stamped, 1, Len(objects))

\* the caller holds a message object: one as its constructor made it, or one whose
\* status (a plain attribute) was set afterwards
CallerNewMessage(message) ==
    /\ ClientIdle
    /\ obs.objects = <<>>
    /\ obs' = [obs EXCEPT !.objects = <<message>>]
    /\ UNCHANGED <<store, clock, nextUuid, tx, del, scan, ghost, lastOp, drive, dashboard, tool, origins>>

\* set_message(message, origin) with the objects the caller holds, without a transaction
CallerSetMessage ==
    /\ lastOp.n < MaxClientCalls
    /\ obs.origin # <<>>
    /\ obs.objects # <<>>
    /\ SetMessage(obs.objects[1], obs.origin[1], FALSE)
    /\ obs' = [Called("set_message", <<obs.objects[1], obs.origin[1]>>) EXCEPT
                  !.objects = ObjectsAfterSetMessage(obs.objects, 1)]
    /\ UNCHANGED <<drive, dashboard, tool, origins>>

CallerNext ==
    \/ \E details \in Details : ClientNewOrigin(details)
    \/ ClientMutateDetails
    \/ \E m \in InputMessages : CallerNewMessage(m)
    \/ CallerSetMessage

CallerSpec == Init /\ [][CallerNext]_vars

(* ------------------------------ serialization -------------------------- *)
\* a time field is a datetime, the string isoformat() makes of one, or None
Datetime(t) == [type |-> "datetime", at |-> t]
IsoString(t) == [type |-> "str", at |-> t]
NoneTime == [type |-> "NoneType", at |-> 0]

\* value.isoformat(): None has no such method, the call raises (the empty sequence)
Isoformat(value) == IF value.type = "datetime" THEN <<IsoString(value.at)>> ELSE <<>>
\* datetime.fromisoformat(string)
FromIsoformat(value) == Datetime(value.at)

MessageOrigin(origin_id, origin_type) == [origin_id |-> origin_id, origin_type |-> origin_type]
MessageOriginToDict(origin) == [origin_id |-> origin.origin_id, origin_type |-> origin.origin_type]
MessageOriginFromDict(d) == MessageOrigin(d.origin_id, d.origin_type)

\* a Message object with the fields of its constructor (labels, which core_data_modules
\* serializes, left out); coda_id is <<>> for None
MessageObject(text, timestamp, participant_uuid, direction, channel_operator, status, dataset, origin, message_id, coda_id, last_updated, previous_datasets) ==
    [text |-> text, timestamp |-> timestamp, participant_uuid |-> participant_uuid,
     direction |-> direction, channel_operator |-> channel_operator, status |-> status,
     dataset |-> dataset, origin |-> origin, message_id |-> message_id, coda_id |-> coda_id,
     last_updated |-> last_updated, previous_datasets |-> previous_datasets]

\* the dict before the datetimes are serialized: coda_id is a key only when it is not None
NativeDict(m) ==
    LET message_dict ==
            [text |-> m.text, timestamp |-> m.timestamp,
             participant_uuid |-> m.participant_uuid, direction |-> m.direction,
             channel_operator |-> m.channel_operator, status |-> m.status,
             dataset |-> m.dataset, origin |-> MessageOriginToDict(m.origin),
             message_id |-> m.message_id, last_updated |-> m.last_updated,
             previous_datasets |-> m.previous_datasets]
    IN IF m.coda_id # <<>>
       THEN [k \in DOMAIN message_dict \cup {"coda_id"} |->
                IF k = "coda_id" THEN m.coda_id[1] ELSE message_dict[k]]
       ELSE message_dict

\* Message.to_dict(serialize_datetimes_to_str): the dict, or the empty sequence when a
\* statement of it raises
ToDict(m, serialize_datetimes_to_str) ==
    IF ~serialize_datetimes_to_str THEN <<NativeDict(m)>>
    ELSE IF Isoformat(m.timestamp) = <<>> \/ Isoformat(m.last_updated) = <<>> THEN <<>>
    ELSE <<[NativeDict(m) EXCEPT !.timestamp = Isoformat(m.timestamp)[1],
                                 !.last_updated = Isoformat(m.last_updated)[1]]>>

\* Message.from_dict(d): string times are parsed, d.get("coda_id") is None without the key
FromDict(d) ==
    MessageObject(d.text,
                  IF d.timestamp.type = "str" THEN FromIsoformat(d.timestamp) ELSE d.timestamp,
                  d.participant_uuid, d.direction, d.channel_operator, d.status, d.dataset,
                  MessageOriginFromDict(d.origin), d.message_id,
                  IF "coda_id" \in DOMAIN d THEN <<d.coda_id>> ELSE <<>>,
                  IF d.last_updated.type = "str" THEN FromIsoformat(d.last_updated)
                                                ELSE d.last_updated,
                  d.previous_datasets)

\* the valid messages a caller constructs: written before (last_updated a datetime) or not
\* yet (None), with and without coda_id
MessageObjects ==
    {MessageObject("hello", Datetime(3), "p1", direction, "telegram", status, dataset,
                   MessageOrigin("o1", "rapid_pro"), id, coda_id, last_updated, <<"d0">>) :
        direction \in MessageDirections, status \in MessageStatuses, dataset \in Datasets,
        id \in MessageIds, coda_id \in {<<>>, <<"c1">>},
        last_updated \in {NoneTime, Datetime(5)}}

\* a caller serializes a message it holds
ClientToDict(m, serialize_datetimes_to_str) ==
    /\ obs.last.op = "none"
    /\ LET d == ToDict(m, serialize_datetimes_to_str)
       IN obs' = [obs EXCEPT
                    !.last = [op |-> "to_dict", n |-> 0, arg |-> <<m, serialize_datetimes_to_str>>,
                              outcome |-> IF d = <<>> THEN "error" ELSE "ok"],
                    !.read = [op |-> "to_dict", n |-> 0, message_id |-> m.message_id,
                              outcome |-> IF d = <<>> THEN "error" ELSE "ok", result |-> d]]
    /\ UNCHANGED <<store, clock, nextUuid, tx, del, scan, ghost, lastOp, drive, dashboard, tool, origins>>

\* and deserializes the dict
ClientFromDict ==
    /\ obs.read.op = "to_dict" /\ obs.read.result # <<>>
    /\ obs' = [obs EXCEPT !.read = [op |-> "from_dict", n |-> 0, message_id |-> @.message_id,
                                    outcome |-> "ok", result |-> <<FromDict(@.result[1])>>]]
    /\ UNCHANGED <<store, clock, nextUuid, tx, del, scan, ghost, lastOp, drive, dashboard, tool, origins>>

RoundTripNext ==
    \/ \E m \in MessageObjects, serialize_datetimes_to_str \in BOOLEAN :
          ClientToDict(m, serialize_datetimes_to_str)
    \/ ClientFromDict

RoundTripSpec == Init /\ [][RoundTripNext]_vars

(* ------------------------------ history reader ------------------------- *)
\* the filters a caller of get_history passes: none, or a limit
HistoryFilters == {NoFilter, [NoFilter EXCEPT !.limit = 1]}

\* get_history without batch_size: one query
GetHistoryUnbatched(s, f) == QueryGet(s, FirestoreQueryFilter(f, CollectionQuery("history")))

\* `query.order_by("timestamp").limit(batch_size)`
HistoryBatchedQuery(f, batch_size) ==
    QueryLimit(QueryOrderBy(FirestoreQueryFilter(f, CollectionQuery("history")), "timestamp"),
               batch_size)

\* the state of get_history after a page: a deserialization raised, the loop goes on, or
\* the fetched entries are returned as they were fetched
AfterHistoryPage(f, batch_size, history_entries, data, last, queries) ==
    [pc |-> IF FromDictRaises(data) THEN "error"
            ELSE IF Len(data) = 0 THEN "done" ELSE "paging_history",
     filter |-> f, batch_size |-> batch_size,
     last_msg |-> last,
     messages |-> IF FromDictRaises(data) THEN <<>>
                  ELSE history_entries \o HistoryEntriesFromDicts(data),
     queries |-> queries,
     last_page |-> Len(data),
     result |-> IF ~FromDictRaises(data) /\ Len(data) = 0 THEN history_entries ELSE <<>>,
     assert_ok |-> TRUE]

GetHistoryAll(f) ==
    /\ scan.pc = "idle"
    /\ LET data == GetHistoryUnbatched(store, f)
       IN scan' = [IdleScan EXCEPT
                     !.pc = IF FromDictRaises(data) THEN "error" ELSE "done",
                     !.filter = f, !.queries = 1, !.last_page = Len(data),
                     !.messages = IF FromDictRaises(data) THEN <<>>
                                  ELSE HistoryEntriesFromDicts(data),
                     !.result = IF FromDictRaises(data) THEN <<>>
                                ELSE HistoryEntriesFromDicts(data)]
    /\ UNCHANGED <<store, clock, nextUuid, tx, del, ghost, lastOp>>

\* get_history with batch_size: the first page; a page of batch_size or fewer entries is
\* followed by another query, last_history_entry being the last deserialized entry
GetHistoryFirstPage(f, batch_size) ==
    /\ scan.pc = "idle"
    /\ LET data == QueryGet(store, HistoryBatchedQuery(f, batch_size))
       IN scan' = AfterHistoryPage(f, batch_size, <<>>, data,
                      IF Len(data) = 0 \/ FromDictRaises(data) THEN <<>>
                      ELSE <<HistoryEntryToDict(HistoryEntryFromDict(data[Len(data)]))>>, 1)
    /\ UNCHANGED <<store, clock, nextUuid, tx, del, ghost, lastOp>>

\* get_history with batch_size: one turn of the loop, last_history_entry being the last
\* document of the page
GetHistoryNextPage ==
    /\ scan.pc = "paging_history"
    /\ LET q == QueryStartAfter(HistoryBatchedQuery(scan.filter, scan.batch_size),
                                scan.last_msg[1])
           data == QueryGet(store, q)
       IN scan' = AfterHistoryPage(scan.filter, scan.batch_size, scan.messages, data,
                                   LastOf(data), scan.queries + 1)
    /\ UNCHANGED <<store, clock, nextUuid, tx, del, ghost, lastOp>>

\* a history entry of an earlier export whose doc_type is not the message document kind
\* (doc_type is a plain attribute of the entry, written to the store as it is)
ExportedEntryOfOtherDocType ==
    [HistoryEntry(LocalPathForRef(MessageRef(1)), Message(1, "hello", "in", "live", "d1", 0),
                  HistoryEntryOrigin("sync", "primitives"), 0, 0)
        EXCEPT !.doc_type = "command_log_entry"]

\* the store when a reader calls get_history: the history of messages 1..n, written by one
\* import batch (the entries share their write time) or by one batch each, and in some
\* stores the restored entry of another document kind
HistoryInit ==
    /\ \E n \in 0..MaxMessageIds : \E together \in BOOLEAN : \E restored \in BOOLEAN :
          LET imported == IF together THEN ImportedTogether(n, [i \in 1..n |-> "d1"])
                                      ELSE ImportedInTurn(n, [i \in 1..n |-> "d1"])
              t == IF together THEN 1 ELSE n
          IN /\ clock = (IF restored THEN t + 1 ELSE t)
             /\ store = (IF restored
                         THEN ApplyWrites(imported,
                                  <<HistoryWrite(ExportedEntryOfOtherDocType)>>, t + 1)
                         ELSE imported)
             /\ nextUuid = 1 + n
    /\ tx = NoTx
    /\ del = IdleDel
    /\ scan = IdleScan
    /\ ghost = NoGhost
    /\ lastOp = [n |-> 1, op |-> "commit", tx |-> TRUE, outcome |-> "ok"]
    /\ obs = NoObs
    /\ drive = NoDrive
    /\ dashboard = NoDashboard
    /\ tool = NoTool
    /\ origins = NoOrigins

\* a reader's get_history and get_history_for_message on a store that no one writes
HistoryNext ==
    \/ \E f \in HistoryFilters : GetHistoryAll(f) /\ UNCHANGED <<obs, drive, dashboard, tool, origins>>
    \/ \E f \in HistoryFilters, b \in BatchSizes : GetHistoryFirstPage(f, b) /\ UNCHANGED <<obs, drive, dashboard, tool, origins>>
    \/ GetHistoryNextPage /\ UNCHANGED <<obs, drive, dashboard, tool, origins>>
    \/ \E id \in MessageIds : ClientGetHistoryForMessage(id)

HistorySpec == HistoryInit /\ [][HistoryNext]_vars

(* ------------------------------ tracked writes ------------------------- *)
\* a caller holds a batch it made with db.batch()
AuditInit ==
    /\ store = <<>>
    /\ clock = 0
    /\ nextUuid = 1
    /\ tx = [NoTx EXCEPT !.open = TRUE]
    /\ del = IdleDel
    /\ scan = IdleScan
    /\ ghost = NoGhost
    /\ lastOp = [n |-> 0, op |-> "batch", tx |-> FALSE, outcome |-> "ok"]
    /\ obs = NoObs
    /\ drive = NoDrive
    /\ dashboard = NoDashboard
    /\ tool = NoTool
    /\ origins = NoOrigins

\* set_message calls that return, committed by themselves or staged on the caller's batch
\* that its owner commits
AuditNext ==
    \/ Batch /\ UNCHANGED <<obs, drive, dashboard, tool, origins>>
    \/ CommitContext /\ UNCHANGED <<obs, drive, dashboard, tool, origins>>
    \/ \E m \in ClientMessages, use_tx \in BOOLEAN :
          SetMessage(m, HistoryEntryOrigin("sync", "primitives"), use_tx) /\ UNCHANGED <<obs, drive, dashboard, tool, origins>>

AuditSpec == AuditInit /\ [][AuditNext]_vars

(* ------------------------------ a delete and a write ------------------- *)
\* the store after a set_message committed at time t
AfterSetMessage(s, message, origin, uuid, t) ==
    ApplyWrites(s, SetMessageWrites(message, origin, uuid), t)

\* the store after a delete_message_and_history that read and committed with no write of
\* another process in between, committed at time t
AfterDeleteMessageAndHistory(s, message_id, t) ==
    ApplyWrites(s, DeleteMessageAndHistoryWrites(message_id, GetMessage(s, message_id),
                                                 GetHistoryForMessage(s, message_id)), t)

\* the store before either process calls: messages 1..n, written by one batch each
RaceInit ==
    /\ \E n \in 0..MaxMessageIds : \E dataset_of \in [1..n -> Datasets] :
          /\ clock = n
          /\ store = ImportedInTurn(n, dataset_of)
          /\ ghost = [NoGhost EXCEPT !.start = ImportedInTurn(n, dataset_of)]
          /\ nextUuid = 1 + n
    /\ tx = NoTx
    /\ del = IdleDel
    /\ scan = IdleScan
    /\ lastOp = [n |-> 0, op |-> "init", tx |-> FALSE, outcome |-> "ok"]
    /\ obs = NoObs
    /\ drive = NoDrive
    /\ dashboard = NoDashboard
    /\ tool = NoTool
    /\ origins = NoOrigins

\* one process calls set_message once, at any moment of the other's call
RaceSetMessage(message) ==
    /\ obs.last.op = "none"
    /\ SetMessageCall(message, HistoryEntryOrigin("sync", "primitives"), FALSE)
    /\ obs' = [obs EXCEPT !.last = [op |-> "set_message", n |-> lastOp'.n,
                                    arg |-> <<message, HistoryEntryOrigin("sync", "primitives")>>,
                                    outcome |-> lastOp'.outcome]]
    /\ UNCHANGED <<drive, dashboard, tool, origins>>

\* the other process calls delete_message_and_history once: its reads
RaceDeleteMessageAndHistoryRead(message_id) ==
    /\ obs.read.op = "none"
    /\ DeleteMessageAndHistoryRead(message_id, FALSE)
    /\ obs' = [obs EXCEPT !.read = [op |-> "get_message", n |-> lastOp.n,
                                    message_id |-> message_id, outcome |-> "ok",
                                    result |-> GetMessage(store, message_id)]]
    /\ UNCHANGED <<drive, dashboard, tool, origins>>

\* a set_message and a delete_message_and_history of two processes, neither in a transaction
RaceNext ==
    \/ \E m \in ExportedMessages : RaceSetMessage(m)
    \/ \E id \in MessageIds : RaceDeleteMessageAndHistoryRead(id)
    \/ DeleteMessageAndHistoryWrite /\ UNCHANGED <<obs, drive, dashboard, tool, origins>>

RaceSpec == RaceInit /\ [][RaceNext]_vars

(* ------------------------------ the page loops end --------------------- *)
\* a page loop is given at most one document per stored message or entry and one per write
\* committed while it runs, and one empty page: a loop of more queries has not ended
PageBudget == MaxMessageIds + MaxWritesWhileReading + 2

\* `while last_msg is not None`: one more turn of the loop of get_messages
ReaderGetMessagesNextPage ==
    /\ scan.queries < PageBudget
    /\ GetMessagesNextPage
    /\ UNCHANGED <<obs, drive, dashboard, tool, origins>>

\* `while last_history_entry is not None`: one more turn of the loop of get_history
ReaderGetHistoryNextPage ==
    /\ scan.queries < PageBudget
    /\ GetHistoryNextPage
    /\ UNCHANGED <<obs, drive, dashboard, tool, origins>>

\* another process commits a write while the reader is between two pages, at most
\* MaxWritesWhileReading times
WriterSetMessage(message) ==
    /\ scan.pc \in {"paging", "paging_history"}
    /\ lastOp.n <= MaxWritesWhileReading
    /\ SetMessage(message, HistoryEntryOrigin("sync", "primitives"), FALSE)
    /\ UNCHANGED <<obs, drive, dashboard, tool, origins>>

WriterDeleteDoc(ref) ==
    /\ scan.pc \in {"paging", "paging_history"}
    /\ lastOp.n <= MaxWritesWhileReading
    /\ DeleteDoc(ref, FALSE)
    /\ UNCHANGED <<obs, drive, dashboard, tool, origins>>

PagingNext ==
    \/ \E f \in Filters, b \in BatchSizes :
          GetMessagesFirstPage(f, b) /\ UNCHANGED <<obs, drive, dashboard, tool, origins>>
    \/ ReaderGetMessagesNextPage
    \/ \E f \in HistoryFilters, b \in BatchSizes :
          GetHistoryFirstPage(f, b) /\ UNCHANGED <<obs, drive, dashboard, tool, origins>>
    \/ ReaderGetHistoryNextPage
    \/ \E m \in ExportedMessages : WriterSetMessage(m)
    \/ \E id \in MessageIds : WriterDeleteDoc(MessageRef(id))

\* a turn of a page loop can be taken: the guard of the two page turns
PageLoopCanTurn == scan.pc \in {"paging", "paging_history"} /\ scan.queries < PageBudget

\* the reader is a running process and the store answers every query: a turn of a page
\* loop that can be taken is taken. This is weak fairness of the page turns, with what
\* enables them written as their guard.
PageTurnFairness ==
    <>[]PageLoopCanTurn => []<><<ReaderGetMessagesNextPage \/ ReaderGetHistoryNextPage>>_vars

PagingSpec == ScanInit /\ [][PagingNext]_vars /\ PageTurnFairness

(* ------------------------------ Drive client wrapper ------------------- *)
TargetFileName == "report.csv"
TargetFolderId == "folder"
DRIVE_FOLDER_TYPE == "application/vnd.google-apps.folder"

\* an object of the folder as _list_folder_id returns it (keys id, name, mimeType), with
\* the content Drive holds for it
DriveFile(id, name, content) ==
    [id |-> id, name |-> name, content |-> content, mimeType |-> "text/csv"]
DriveFolder(id, name) ==
    [id |-> id, name |-> name, content |-> "", mimeType |-> DRIVE_FOLDER_TYPE]

\* file.get(key): None (the empty sequence) for a key the dict does not have
Get(file, key) == IF key \in DOMAIN file THEN <<file[key]>> ELSE <<>>

\* `duplicate_file.get("mimetype") == DRIVE_FOLDER_TYPE`
IsFolder(file) == Get(file, "mimetype") = <<DRIVE_FOLDER_TYPE>>

FileOfId(files, id) == CHOOSE f \in files : f.id = id

\* Drive answers a call, or the call raises: HttpError with a transient or another status,
\* socket.timeout, or ResumableUploadError, the subclass of HttpError that the start of a
\* resumable upload (MediaFileUpload(resumable=True)) raises when Drive refuses it
Ok == Answer("ok", 200)
DriveErrors ==
    {Answer("HttpError", 503), Answer("HttpError", 404), Answer("socket.timeout", 0),
     Answer("ResumableUploadError", 403)}

\* `if type(ex) == HttpError: if ex.resp.status not in {500, 503}: raise ex`
RaisedAtOnce(ex) == ex.type = "HttpError" /\ ex.status \notin {500, 503}

\* _auto_retry(f, max_retries, backoff_seconds), on entry
AutoRetry(max_retries, backoff_seconds) ==
    [calls |-> 0, failed |-> 0, max_retries |-> max_retries,
     backoff_seconds |-> backoff_seconds, slept |-> <<>>, outcome |-> "running",
     value |-> <<>>, ex |-> NoException,
     args |-> [max_retries |-> max_retries, backoff_seconds |-> backoff_seconds]]

\* f() returned value: `return f()` in the outermost call; the call of line 222 is not
\* returned, so after a retry the outermost call returns None (the empty sequence)
AutoRetryReturns(r, value) ==
    [r EXCEPT !.calls = @ + 1, !.outcome = "returned",
              !.value = IF r.calls = 0 THEN <<value>> ELSE <<>>]

\* a retry that returns None once the retries are used up
AutoRetrySwallows(r, ex) ==
    IF ~RaisedAtOnce(ex) /\ r.max_retries > 0
    THEN [r EXCEPT !.calls = @ + 1, !.failed = @ + 1, !.slept = Append(@, r.backoff_seconds),
                   !.max_retries = @ - 1, !.backoff_seconds = @ * 2, !.ex = ex]
    ELSE [r EXCEPT !.calls = @ + 1, !.failed = @ + 1, !.ex = ex,
                   !.outcome = IF ~RaisedAtOnce(ex) THEN "returned" ELSE "raised"]

\* f() raised ex, an HttpError (or an instance of a subclass) or a socket.timeout: unless
\* lines 211-213 raise it at once, it is followed by time.sleep(backoff_seconds) and a call
\* with max_retries - 1 and backoff_seconds * 2 while max_retries > 0, and raised when
\* max_retries = 0
AutoRetryFails(r, ex) ==
    IF ~RaisedAtOnce(ex) /\ r.max_retries > 0
    THEN [r EXCEPT !.calls = @ + 1, !.failed = @ + 1, !.slept = Append(@, r.backoff_seconds),
                   !.max_retries = @ - 1, !.backoff_seconds = @ * 2, !.ex = ex]
    ELSE [r EXCEPT !.calls = @ + 1, !.failed = @ + 1, !.outcome = "raised", !.ex = ex]

\* an upload that never finds a file of the name
NoFileWithUploadName(files, name) == {}

\* `list(filter(lambda file: file.get('name') == target_file_name, files))`
FilesWithUploadName(files, name) == {f \in files : f.name = name}

\* the ids of a list of files, in the order of the list
IdsInOrder(files) ==
    LET ids == {f.id : f \in files}
    IN CHOOSE seq \in [1..Cardinality(ids) -> ids] :
          \A i, j \in 1..Cardinality(ids) : i < j => seq[i] < seq[j]

\* a new _auto_retry with the caller's max_retries and backoff_seconds
NextRetry == AutoRetry(drive.args.max_retries, drive.args.backoff_seconds)

\* `for duplicate_file in files_with_upload_name`, at the duplicates d.todo that are left:
\* exit(1) when the folder check finds a folder, else the duplicate is deleted; after the
\* last one files_with_upload_name is [] and the file is created
NextDuplicate(d) ==
    IF d.todo = <<>> THEN [d EXCEPT !.pc = "create"]
    ELSE IF IsFolder(FileOfId(d.files, d.todo[1])) THEN [d EXCEPT !.pc = "exited"]
    ELSE [d EXCEPT !.pc = "delete"]

\* update_or_create after `files = _auto_retry(...)`: None is not iterable; several files
\* of the name are deleted with fix_duplicates, else exit(1); one is updated unless the
\* folder check finds a folder; none: create
AfterList(files) ==
    IF files = <<>> THEN [drive EXCEPT !.pc = "raised"]
    ELSE LET files_with_upload_name == FilesWithUploadName(files[1], TargetFileName)
         IN IF Cardinality(files_with_upload_name) > 1
            THEN IF drive.args.fix_duplicates
                 THEN NextDuplicate([drive EXCEPT !.todo = IdsInOrder(files_with_upload_name)])
                 ELSE [drive EXCEPT !.pc = "exited"]
            ELSE IF Cardinality(files_with_upload_name) = 1
                 THEN IF IsFolder(FileOfId(files[1], IdsInOrder(files_with_upload_name)[1]))
                      THEN [drive EXCEPT !.pc = "exited"]
                      ELSE [drive EXCEPT !.pc = "update",
                                         !.existing_file = IdsInOrder(files_with_upload_name)[1]]
                 ELSE [drive EXCEPT !.pc = "create"]

\* the folder after the Drive call that update_or_create is at has taken effect
DriveEffect ==
    IF drive.pc = "delete" THEN {f \in drive.files : f.id # drive.todo[1]}
    ELSE IF drive.pc = "update"
         THEN {IF f.id = drive.existing_file THEN [f EXCEPT !.content = drive.args.content] ELSE f :
                  f \in drive.files}
    ELSE IF drive.pc = "create"
         THEN drive.files \cup {DriveFile(drive.next_id, TargetFileName, drive.args.content)}
    ELSE drive.files

\* update_or_create from the return of one _auto_retry to the next one, or to its end
AfterDriveCall(r) ==
    LET d == [drive EXCEPT !.files = DriveEffect,
                           !.next_id = IF drive.pc = "create" THEN @ + 1 ELSE @]
        next == IF drive.pc = "get_path_id"
                THEN [d EXCEPT !.target_folder_id = r.value, !.pc = "list"]
                ELSE IF drive.pc = "list" THEN AfterList(r.value)
                ELSE IF drive.pc = "delete" THEN NextDuplicate([d EXCEPT !.todo = Tail(@)])
                ELSE [d EXCEPT !.pc = "returned"]
    IN [next EXCEPT !.retry = IF next.pc \in {"returned", "raised", "exited"} THEN r
                              ELSE NextRetry]

\* update_or_create(source_file_path, target_folder_path, target_file_name, fix_duplicates,
\* max_retries, backoff_seconds) is called, by a process that is in no other call
UpdateOrCreate ==
    /\ drive.pc \in {"idle", "returned", "raised", "exited"}
    /\ drive.calls < MaxDriveCalls
    /\ drive' = [drive EXCEPT !.pc = "get_path_id", !.calls = @ + 1, !.before = drive.files,
                              !.target_folder_id = <<>>, !.todo = <<>>, !.existing_file = 0,
                              !.retry = NextRetry]
    /\ UNCHANGED <<store, clock, nextUuid, tx, del, scan, ghost, lastOp, obs, dashboard, tool, origins>>

\* the value the Drive call returns to _auto_retry
DriveValue ==
    IF drive.pc = "get_path_id" THEN TargetFolderId
    ELSE IF drive.pc = "list" THEN drive.files
    ELSE "None"

\* one call f() of the running _auto_retry: Drive answers, or the call raises one of
\* DriveErrors (ResumableUploadError in an upload only); a failed call leaves the folder
\* as it was. Drive answers a listing of the parent None with HttpError 404.
DriveCall(result) ==
    /\ drive.pc \in {"get_path_id", "list", "delete", "update", "create"}
    /\ (drive.pc = "list" /\ drive.target_folder_id = <<>>) => result = Answer("HttpError", 404)
    /\ result.type = "ResumableUploadError" => drive.pc \in {"update", "create"}
    /\ LET r == drive.retry
       IN drive' = IF result = Ok
                   THEN AfterDriveCall(AutoRetryReturns(r, DriveValue))
                   ELSE IF AutoRetryFails(r, result).outcome = "running"
                        THEN [drive EXCEPT !.retry = AutoRetryFails(r, result)]
                        ELSE [drive EXCEPT !.retry = AutoRetryFails(r, result), !.pc = "raised"]
    /\ UNCHANGED <<store, clock, nextUuid, tx, del, scan, ghost, lastOp, obs, dashboard, tool, origins>>

\* the folder holds k objects of the target name, the first `folders` of them folders, and
\* one file of another name; the caller's arguments are the same in every call
DriveStart(k, folders, fix_duplicates, max_retries, backoff_seconds) ==
    /\ store = <<>>
    /\ clock = 0
    /\ nextUuid = 1
    /\ tx = NoTx
    /\ del = IdleDel
    /\ scan = IdleScan
    /\ ghost = NoGhost
    /\ lastOp = [n |-> 0, op |-> "init", tx |-> FALSE, outcome |-> "ok"]
    /\ obs = NoObs
    /\ dashboard = NoDashboard
    /\ tool = NoTool
    /\ origins = NoOrigins
    /\ drive = [NoDrive EXCEPT
                  !.files = {IF i <= folders THEN DriveFolder(i, TargetFileName)
                                             ELSE DriveFile(i, TargetFileName, "old") : i \in 1..k}
                            \cup {DriveFile(k + 1, "other.csv", "old")},
                  !.next_id = k + 2,
                  !.args = [content |-> "v1", fix_duplicates |-> fix_duplicates,
                            max_retries |-> max_retries, backoff_seconds |-> backoff_seconds]]

\* a folder of files: 0..MaxDuplicates files of the target name
DriveInit ==
    \E k \in 0..MaxDuplicates, fix_duplicates \in BOOLEAN, max_retries \in 0..MaxRetries,
       backoff_seconds \in {1, 3} :
       DriveStart(k, 0, fix_duplicates, max_retries, backoff_seconds)

DriveNext ==
    \/ UpdateOrCreate
    \/ \E result \in {Ok} \cup DriveErrors : DriveCall(result)

DriveSpec == DriveInit /\ [][DriveNext]_vars

\* a folder in which one of the 1..MaxDuplicates objects of the target name is a folder
DriveFolderInit ==
    \E k \in 1..MaxDuplicates, fix_duplicates \in BOOLEAN, max_retries \in 0..1 :
       DriveStart(k, 1, fix_duplicates, max_retries, 1)

DriveFolderSpec == DriveFolderInit /\ [][DriveNext]_vars

(* ------------------------------ the deletion tool ---------------------- *)
\* tools/delete.py. A string is the sequence of its characters; an argument that was not
\* given (None) is falsy like the empty string, and is the empty sequence.

\* the keys of the uuid table that the runs are made against
Urns == {<<"t", "1">>, <<"t", "2">>, <<"w", "1">>}
ToolArgs == {<<>>, <<"t">>, <<"1">>, <<"x">>}
\* what the user types, after .lower()
Choices == {"", "yes", "y", "ye", "no", "n", "maybe"}

\* `q[0].startswith(prefix)`, `substring in q[0]`, `q[0].endswith(suffix)`
StartsWith(s, prefix) == Len(prefix) <= Len(s) /\ SubSeq(s, 1, Len(prefix)) = prefix
Contains(s, substring) ==
    \E i \in 1..(Len(s) + 1) :
       i + Len(substring) - 1 <= Len(s) /\ SubSeq(s, i, i + Len(substring) - 1) = substring
EndsWith(s, suffix) ==
    Len(suffix) <= Len(s) /\ SubSeq(s, Len(s) - Len(suffix) + 1, Len(s)) = suffix

\* firestore_filters: a filter for every argument that is truthy
FirestoreFilters(prefix, substring, suffix) ==
    (IF prefix # <<>> THEN {"prefix"} ELSE {}) \cup
    (IF substring # <<>> THEN {"substring"} ELSE {}) \cup
    (IF suffix # <<>> THEN {"suffix"} ELSE {})

\* `dict(filter(lambda x: all(f(x) for f in firestore_filters), mappings.items()))`
FilteredMappings(mappings, prefix, substring, suffix) ==
    {q \in mappings :
        /\ prefix # <<>> => StartsWith(q, prefix)
        /\ substring # <<>> => Contains(q, substring)
        /\ suffix # <<>> => EndsWith(q, suffix)}

\* `valid = {"yes": True, "y": True, "ye": True, "no": False, "n": False}`
valid == [choice \in {"yes", "y", "ye", "no", "n"} |-> choice \in {"yes", "y", "ye"}]

\* one turn of the loop of query_yes_no(question, default) on the input choice: the value
\* it returns, or nothing when it asks again
QueryYesNo(choice, default) ==
    IF choice = "" /\ default # <<>> THEN <<valid[default[1]]>>
    ELSE IF choice \in DOMAIN valid THEN <<TRUE>>
    ELSE <<>>

\* the script from its start to the question: exit(0) without a filter or without a mapping
\* that passes the filters
ToolMain(prefix, substring, suffix) ==
    /\ tool.pc = "idle"
    /\ LET filtered_mappings == FilteredMappings(tool.mappings, prefix, substring, suffix)
       IN tool' = IF FirestoreFilters(prefix, substring, suffix) = {} \/ filtered_mappings = {}
                  THEN [tool EXCEPT !.pc = "exited"]
                  ELSE [tool EXCEPT !.pc = "asking", !.filtered_mappings = filtered_mappings]
    /\ UNCHANGED <<store, clock, nextUuid, tx, del, scan, ghost, lastOp, obs, drive, dashboard, origins>>

\* the user answers the question: query_yes_no("Are you sure ...") asks again or returns
\* proceed; `if not proceed: exit(0)`, else delete_mappings(filtered_mappings)
ToolAnswer(choice) ==
    /\ tool.pc = "asking"
    /\ LET proceed == QueryYesNo(choice, <<"yes">>)
       IN /\ proceed = <<>> => tool.asked + 1 < MaxPrompts
          /\ tool' = IF proceed = <<>>
                     THEN [tool EXCEPT !.asked = @ + 1, !.choice = <<choice>>]
                     ELSE IF proceed[1]
                     THEN [tool EXCEPT !.asked = @ + 1, !.choice = <<choice>>,
                                       !.proceed = proceed, !.pc = "deleted",
                                       !.delete_calls = @ + 1,
                                       !.deleted = tool.filtered_mappings]
                     ELSE [tool EXCEPT !.asked = @ + 1, !.choice = <<choice>>,
                                       !.proceed = proceed, !.pc = "exited"]
    /\ UNCHANGED <<store, clock, nextUuid, tx, del, scan, ghost, lastOp, obs, drive, dashboard, origins>>

ToolInit ==
    /\ store = <<>>
    /\ clock = 0
    /\ nextUuid = 1
    /\ tx = NoTx
    /\ del = IdleDel
    /\ scan = IdleScan
    /\ ghost = NoGhost
    /\ lastOp = [n |-> 0, op |-> "init", tx |-> FALSE, outcome |-> "ok"]
    /\ obs = NoObs
    /\ drive = NoDrive
    /\ dashboard = NoDashboard
    /\ origins = NoOrigins
    /\ \E mappings \in SUBSET Urns : tool = [NoTool EXCEPT !.mappings = mappings]

ToolNext ==
    \/ \E prefix \in ToolArgs, substring \in ToolArgs, suffix \in ToolArgs :
          ToolMain(prefix, substring, suffix)
    \/ \E choice \in Choices : ToolAnswer(choice)

ToolSpec == ToolInit /\ [][ToolNext]_vars

(* ------------------------------ Analysis Dashboard --------------------- *)
\* analysis_dashboard/analysis_dashboard.py. files, a dict of local file path -> blob name,
\* is the sequence of its blob names in the order of the dict.
SeriesIds == {"s1", "s2"}
SnapshotIds == 1..2
SnapshotFiles == {<<>>, <<"messages.csv">>, <<"messages.csv", "individuals.csv">>}

\* str(uuid.uuid4()): an id that no caller has given and no earlier call has drawn
Uuid4(n) == 100 + n

\* AnalysisSnapshot(datasets, snapshot_id) and its to_dict()
AnalysisSnapshot(datasets, snapshot_id) == [snapshot_id |-> snapshot_id, datasets |-> datasets]
AnalysisSnapshotToDict(analysis_snapshot) ==
    [snapshot_id |-> analysis_snapshot.snapshot_id, datasets |-> analysis_snapshot.datasets]

\* f"series/{series_id}/snapshots/{snapshot_id}" and
\* f"series/{series_id}/snapshots/{snapshot.snapshot_id}/files/{blob_name}"
SnapshotPath(series_id, snapshot_id) == <<series_id, snapshot_id>>
SnapshotBlobName(series_id, snapshot_id, blob_name) == <<series_id, snapshot_id, blob_name>>

DocsWith(docs, path, data) ==
    [p \in DOMAIN docs \cup {path} |-> IF p = path THEN data ELSE docs[p]]

\* a write that replaces the document a path holds
DocumentSet(docs, path, data) == [docs |-> DocsWith(docs, path, data), outcome |-> "returned"]

\* DocumentReference.create(data): AlreadyExists when the path holds a document
DocumentCreate(docs, path, data) ==
    IF path \in DOMAIN docs THEN [docs |-> docs, outcome |-> "AlreadyExists"]
    ELSE [docs |-> DocsWith(docs, path, data), outcome |-> "returned"]

\* the body of creat_snapshot_doc_in_firestore(series_id, analysis_snapshot)
CreatSnapshotDoc(d, series_id, analysis_snapshot) ==
    LET path == SnapshotPath(series_id, analysis_snapshot.snapshot_id)
        created == DocumentCreate(d.docs, path, AnalysisSnapshotToDict(analysis_snapshot))
    IN [d EXCEPT !.docs = created.docs, !.outcome = created.outcome, !.path = <<path>>,
                 !.pc = "idle"]

\* create_snapshot after the upload loop has taken a file: the next upload, or after the
\* last one the snapshot document
AfterUpload(d) ==
    IF d.todo = <<>> THEN CreatSnapshotDoc(d, d.series_id, d.snapshot[1]) ELSE d

\* a caller calls creat_snapshot_doc_in_firestore with a snapshot of its own
CreatSnapshotDocInFirestore(series_id, analysis_snapshot) ==
    /\ dashboard.pc = "idle"
    /\ dashboard.calls < MaxDashboardCalls
    /\ dashboard' = CreatSnapshotDoc([dashboard EXCEPT !.calls = @ + 1,
                                                       !.op = "creat_snapshot_doc_in_firestore"],
                                     series_id, analysis_snapshot)
    /\ UNCHANGED <<store, clock, nextUuid, tx, del, scan, ghost, lastOp, obs, drive, tool, origins>>

\* create_snapshot(series_id, files) to its first upload (or, without files, to its end)
CreateSnapshot(series_id, files) ==
    /\ dashboard.pc = "idle"
    /\ dashboard.calls < MaxDashboardCalls
    /\ dashboard' = AfterUpload([dashboard EXCEPT
                        !.calls = @ + 1, !.op = "create_snapshot", !.pc = "uploading",
                        !.series_id = series_id, !.files = files, !.todo = files,
                        !.snapshot = <<AnalysisSnapshot(files, Uuid4(dashboard.next_id))>>,
                        !.next_id = @ + 1, !.path = <<>>, !.outcome = "running"])
    /\ UNCHANGED <<store, clock, nextUuid, tx, del, scan, ghost, lastOp, obs, drive, tool, origins>>

\* upload_file_to_storage of the next file: the blob is stored and create_snapshot goes on,
\* or the upload raises and create_snapshot ends with its exception
UploadFileToStorage(succeeds) ==
    /\ dashboard.pc = "uploading"
    /\ dashboard' =
          IF succeeds
          THEN AfterUpload([dashboard EXCEPT
                   !.blobs = @ \cup {SnapshotBlobName(dashboard.series_id,
                                                      dashboard.snapshot[1].snapshot_id,
                                                      dashboard.todo[1])},
                   !.todo = Tail(@)])
          ELSE [dashboard EXCEPT !.pc = "idle", !.outcome = "upload failed",
                                 !.failed_uploads = @ + 1]
    /\ UNCHANGED <<store, clock, nextUuid, tx, del, scan, ghost, lastOp, obs, drive, tool, origins>>

\* a project without a snapshot, or with the snapshot 1 of series s1
DashboardInit ==
    /\ store = <<>>
    /\ clock = 0
    /\ nextUuid = 1
    /\ tx = NoTx
    /\ del = IdleDel
    /\ scan = IdleScan
    /\ ghost = NoGhost
    /\ lastOp = [n |-> 0, op |-> "init", tx |-> FALSE, outcome |-> "ok"]
    /\ obs = NoObs
    /\ drive = NoDrive
    /\ tool = NoTool
    /\ origins = NoOrigins
    /\ \E docs \in {<<>>, DocsWith(<<>>, SnapshotPath("s1", 1),
                                   AnalysisSnapshotToDict(AnalysisSnapshot(<<>>, 1)))} :
          dashboard = [NoDashboard EXCEPT !.docs = docs]

DashboardNext ==
    \/ \E series_id \in SeriesIds, snapshot_id \in SnapshotIds, datasets \in SnapshotFiles :
          CreatSnapshotDocInFirestore(series_id, AnalysisSnapshot(datasets, snapshot_id))
    \/ \E series_id \in SeriesIds, files \in SnapshotFiles : CreateSnapshot(series_id, files)
    \/ \E succeeds \in BOOLEAN : UploadFileToStorage(succeeds)

DashboardSpec == DashboardInit /\ [][DashboardNext]_vars

(* ------------------------------ origin defaults ------------------------ *)
\* HistoryEntryOrigin with its user, project, pipeline and commit. An argument is None (the
\* empty sequence) or a string; line, which no default stands in for, is left out.
OriginUsers == {<<>>, <<"user1">>, <<"user2">>}
OriginProjects == {<<>>, <<"project1">>}
OriginPipelines == {<<>>, <<"pipeline1">>}
OriginCommits == {<<>>, <<"commit1">>, <<"commit2">>}
OriginArgs ==
    [user : OriginUsers, project : OriginProjects, pipeline : OriginPipelines,
     commit : OriginCommits, details : {"primitives"}]

\* a constructor in which a default that is set wins over the argument
DefaultOverArgument(argument, default) == IF default # <<>> THEN default ELSE argument

\* `if user is None: assert HistoryEntryOrigin._default_user is not None, ...;
\* user = HistoryEntryOrigin._default_user`: the value (None where the assertion fails)
ArgumentOrDefault(argument, default) == IF argument = <<>> THEN default ELSE argument

\* HistoryEntryOrigin(origin_name, details, user, project, pipeline, commit) of a class o:
\* AssertionError from the first argument that is None without a default, TypeError from
\* validate_details, or the new object
HistoryEntryOriginInit(o, args) ==
    LET user == ArgumentOrDefault(args.user, o.default_user)
        project == ArgumentOrDefault(args.project, o.default_project)
        pipeline == ArgumentOrDefault(args.pipeline, o.default_pipeline)
        commit == ArgumentOrDefault(args.commit, o.default_commit)
    IN IF <<>> \in {user, project, pipeline, commit}
       THEN [o EXCEPT !.last = "AssertionError", !.args = <<args>>]
       ELSE IF ~ValidateDetails(HistoryEntryOrigin("origin", args.details))
       THEN [o EXCEPT !.last = "TypeError", !.args = <<args>>]
       ELSE [o EXCEPT !.last = "constructed", !.args = <<args>>,
                      !.objects = Append(@, [origin_name |-> "origin", details |-> args.details,
                                             user |-> user[1], project |-> project[1],
                                             pipeline |-> pipeline[1], commit |-> commit[1]])]

\* HistoryEntryOrigin.set_defaults(user, project, pipeline, commit)
SetDefaults(user, project, pipeline, commit) ==
    /\ origins' = [origins EXCEPT !.default_user = user, !.default_project = project,
                                  !.default_pipeline = pipeline, !.default_commit = commit,
                                  !.last = "set_defaults", !.args = <<>>]
    /\ UNCHANGED <<store, clock, nextUuid, tx, del, scan, ghost, lastOp, obs, drive, dashboard, tool>>

\* the process constructs an origin
NewOrigin(args) ==
    /\ Len(origins.objects) < MaxOrigins
    /\ origins' = HistoryEntryOriginInit(origins, args)
    /\ UNCHANGED <<store, clock, nextUuid, tx, del, scan, ghost, lastOp, obs, drive, dashboard, tool>>

OriginsInit ==
    /\ store = <<>>
    /\ clock = 0
    /\ nextUuid = 1
    /\ tx = NoTx
    /\ del = IdleDel
    /\ scan = IdleScan
    /\ ghost = NoGhost
    /\ lastOp = [n |-> 0, op |-> "init", tx |-> FALSE, outcome |-> "ok"]
    /\ obs = NoObs
    /\ drive = NoDrive
    /\ dashboard = NoDashboard
    /\ tool = NoTool
    /\ origins = NoOrigins

OriginsNext ==
    \/ \E user \in OriginUsers, project \in OriginProjects, pipeline \in OriginPipelines,
          commit \in OriginCommits : SetDefaults(user, project, pipeline, commit)
    \/ \E args \in OriginArgs : NewOrigin(args)

OriginsSpec == OriginsInit /\ [][OriginsNext]_vars

(* ------------------------------ claims --------------------------------- *)
CallReturns == lastOp'.n # lastOp.n
NewHistoryRefs == {p \in DOMAIN store' : p[1] = "history" /\ p \notin DOMAIN store}
Batched == scan.batch_size # 0
Fetched(message_id) ==
    {scan.messages[i] : i \in {j \in 1..Len(scan.messages) : scan.messages[j].message_id = message_id}}
Returned(message_id) ==
    {i \in 1..Len(scan.result) : scan.result[i].message_id = message_id}
\* the messages of a messages collection that a filter's where clause selects
Selected(docs, f) == {d \in docs : f.where = "any" \/ d.dataset = f.where}
ResultSet == {scan.result[i] : i \in 1..Len(scan.result)}

\* C1: a set_message call without a transaction that returns normally has made the stamped
\* message document and its history entry visible in the same single step of the store, and
\* one that raises has left the store unchanged: no step shows one write without the other.
C1_AtomicPair ==
    [][(CallReturns /\ lastOp'.op = "set_message" /\ ~lastOp'.tx) =>
           IF lastOp'.outcome = "ok"
           THEN \E id \in MessageIds : \E p \in NewHistoryRefs :
                   /\ MessageRef(id) \in DOMAIN store'
                   /\ store'[MessageRef(id)].last_updated = clock'
                   /\ store'[p].updated_doc = store'[MessageRef(id)]
                   /\ store'[p].timestamp = clock'
                   /\ \A r \in DOMAIN store' \ {p, MessageRef(id)} :
                          r \in DOMAIN store /\ store'[r] = store[r]
           ELSE store' = store]_vars

C1_Witness ==
    /\ lastOp.op = "set_message" /\ ~lastOp.tx /\ lastOp.outcome = "ok"
    /\ \E id \in MessageIds : \E h \in HistoryOf(store) :
          /\ MessageRef(id) \in DOMAIN store
          /\ store[MessageRef(id)].last_updated = clock
          /\ h.updated_doc = store[MessageRef(id)]

\* C2: every set_message that is committed adds exactly one new history entry, under an id
\* no stored entry has, whose updated_doc is the message document that write stored,
\* store-assigned last_updated included: one entry for an auto-committed call, and as many
\* entries as calls were staged when the owner commits its context.
C2_OneHistoryEntry ==
    [][/\ (CallReturns /\ lastOp'.op = "set_message" /\ ~lastOp'.tx /\ lastOp'.outcome = "ok") =>
             /\ Cardinality(NewHistoryRefs) = 1
             /\ \A p \in NewHistoryRefs :
                   /\ store'[p].db_update_path[2] = "messages"
                   /\ store'[p].updated_doc = store'[MessageRef(store'[p].db_update_path[3])]
                   /\ store'[p].updated_doc.last_updated = clock'
       /\ (CallReturns /\ lastOp'.op = "commit") =>
             /\ Cardinality({p \in NewHistoryRefs : store'[p].timestamp = clock'}) = tx.set_calls
             /\ \A p \in {r \in DOMAIN store' : r[1] = "history"} :
                   store'[p].timestamp = clock' =>
                       /\ p \in NewHistoryRefs
                       /\ store'[p].updated_doc.last_updated = clock'
                       /\ store'[p].updated_doc.message_id = store'[p].db_update_path[3]
                       /\ \E i \in 1..Len(tx.writes) :
                             /\ tx.writes[i].ref = MessageRef(store'[p].db_update_path[3])
                             /\ tx.writes[i].op = "set"
                             /\ Resolve(tx.writes[i].doc, clock') = store'[p].updated_doc]_vars

C2_Witness ==
    /\ lastOp.op = "commit"
    /\ \E h \in HistoryOf(store) : \E id \in MessageIds :
          /\ h.timestamp = clock
          /\ MessageRef(id) \in DOMAIN store
          /\ h.updated_doc = store[MessageRef(id)]

\* C3: a set_message that raises leaves no write of its pair behind: in a caller-supplied
\* context every staged stamped message write is directly followed by the write of its
\* history entry.
C3_NoPartialWrite ==
    \A i \in 1..Len(tx.writes) :
        (/\ tx.writes[i].op = "set"
         /\ tx.writes[i].ref[1] = "messages"
         /\ tx.writes[i].doc.last_updated = SERVER_TIMESTAMP) =>
            /\ i < Len(tx.writes)
            /\ tx.writes[i + 1].op = "set"
            /\ tx.writes[i + 1].ref[1] = "history"
            /\ tx.writes[i + 1].doc.updated_doc = tx.writes[i].doc

\* C4: a call that is given the caller's context only stages writes on it: the store is the
\* same when the call returns, the context stays open and keeps what was staged before.
C4_StagesOnly ==
    [][(CallReturns /\ lastOp'.tx /\ lastOp'.op # "commit") =>
           /\ store' = store
           /\ tx'.open
           /\ Len(tx'.writes) >= Len(tx.writes)
           /\ SubSeq(tx'.writes, 1, Len(tx.writes)) = tx.writes]_vars

C4_Witness ==
    /\ lastOp.op = "delete_message_and_history" /\ lastOp.tx
    /\ tx.open /\ Len(tx.writes) = 1 /\ tx.writes[1].op = "delete"
    /\ tx.writes[1].ref \in DOMAIN store

\* C5: on a store that no write changes during the call, batched get_messages returns the
\* same set of message ids as unbatched get_messages with the same filter.
C5_BatchedEqualsUnbatched ==
    (scan.pc = "done" /\ Batched /\ ghost.seen = {MessagesOf(store)}) =>
        Ids(scan.result) = Ids(GetMessagesUnbatched(store, scan.filter))

\* C6: the result of a batched get_messages holds no two messages with the same message_id,
\* and the assertion at its end holds, whatever was written between its pages.
C6_NoDuplicateIds ==
    (scan.pc = "done" /\ Batched) =>
        /\ scan.assert_ok
        /\ \A i, j \in 1..Len(scan.result) :
              scan.result[i].message_id = scan.result[j].message_id => i = j

C6_Witness ==
    /\ scan.pc = "done" /\ Batched
    /\ Len(scan.messages) > Cardinality(Ids(scan.messages))
    /\ Len(scan.result) = Cardinality(Ids(scan.messages))

\* C7: for every message id fetched in any page the result of a batched get_messages holds
\* exactly one version, a fetched one, with the greatest last_updated of the fetched versions
\* of that id; and it holds nothing else.
C7_LatestVersionWins ==
    (scan.pc = "done" /\ Batched) =>
        /\ Ids(scan.result) = Ids(scan.messages)
        /\ \A id \in Ids(scan.messages) :
              /\ Cardinality(Returned(id)) = 1
              /\ \A i \in Returned(id) :
                    /\ scan.result[i] \in Fetched(id)
                    /\ \A m \in Fetched(id) : m.last_updated <= scan.result[i].last_updated

C7_Witness ==
    /\ scan.pc = "done" /\ Batched
    /\ \E id \in MessageIds : \E m1, m2 \in Fetched(id) : \E i \in Returned(id) :
          /\ m1.last_updated < m2.last_updated
          /\ scan.result[i] = m2

\* C8 as stated: a fetched message that a concurrent set_message rewrites with another dataset
\* between two pages is in the result in its updated version only, for every get_messages.
C8_UpdatedVersionOnly ==
    (scan.pc = "done" /\ Batched) =>
        \A r \in ghost.rewritten :
            /\ Cardinality(Returned(r.message_id)) = 1
            /\ \A i \in Returned(r.message_id) : scan.result[i].last_updated >= r.last_updated

\* C8 amended: the same, for a get_messages whose filter adds no where and no order_by
\* constraint and a message that no delete_doc removes during the scan: the result holds
\* one version of it, the updated one or a later rewrite.
C8_UpdatedVersionOnlyNoFilter ==
    (scan.pc = "done" /\ Batched /\ scan.filter.where = "any" /\ scan.filter.order_by = "none") =>
        \A r \in ghost.rewritten :
            r.message_id \notin ghost.bypassed =>
                /\ Cardinality(Returned(r.message_id)) = 1
                /\ \A i \in Returned(r.message_id) :
                      scan.result[i].last_updated >= r.last_updated

C8_Witness ==
    /\ scan.pc = "done" /\ Batched /\ scan.filter = NoFilter
    /\ \E r \in ghost.rewritten : \E i \in Returned(r.message_id) :
          /\ r.message_id \notin ghost.bypassed
          /\ scan.result[i].last_updated = r.last_updated
          /\ \E m \in Fetched(r.message_id) : m.dataset # scan.result[i].dataset

\* C9: a batched get_messages is not snapshot-isolated: every page after the first is read
\* from the messages collection as it is when that page is fetched, so the pages of one call
\* can come from different instants.
C9_PagesReadLatest ==
    [][(scan.pc = "paging" /\ scan'.queries = scan.queries + 1) =>
           \A i \in (Len(scan.messages) + 1)..Len(scan'.messages) :
               MessageToDict(scan'.messages[i]) \in MessagesOf(store)]_vars

\* a result, reached under set_message commits alone, that differs from what the filter
\* selects from the messages collection at every instant of the scan
C9_Witness ==
    /\ scan.pc = "done" /\ Batched /\ scan.filter.limit = NoLimit
    /\ ghost.bypassed = {}
    /\ \A docs \in ghost.seen : ResultSet # Selected(docs, scan.filter)
    /\ \E docs \in ghost.seen : \E m \in ResultSet : m \notin docs

\* C10 as stated: no page query follows a page with fewer than batch_size items, and 130
\* stored messages read with batch_size 50 come back as 130 unique ids in 3 page queries.
C10_StopsAfterShortPage ==
    /\ scan.pc = "paging" => scan.last_page = scan.batch_size
    /\ (scan.pc = "done" /\ Cardinality(MessagesOf(store)) = 130) =>
          /\ scan.queries = 3
          /\ Cardinality(Ids(scan.result)) = 130

\* C10 amended: no page query follows a page without items, and every page with an item is
\* followed by another query, so n stored messages take one page query more than they fill
\* pages: 130 messages read with batch_size 50 come back as 130 unique ids in 4 page queries.
C10_StopsAfterEmptyPage ==
    /\ scan.pc = "paging" => scan.last_page > 0
    /\ scan.pc = "done" =>
          /\ scan.last_page = 0
          /\ scan.queries = ((Cardinality(MessagesOf(store)) + scan.batch_size - 1)
                                 \div scan.batch_size) + 1
          /\ Len(scan.result) = Cardinality(MessagesOf(store))
          /\ Ids(scan.result) = {d.message_id : d \in MessagesOf(store)}
    /\ (scan.pc = "done" /\ Cardinality(MessagesOf(store)) = 130) =>
          /\ scan.queries = 4
          /\ Cardinality(Ids(scan.result)) = 130

C10_Witness ==
    /\ scan.pc = "done" /\ scan.batch_size = 50
    /\ Cardinality(MessagesOf(store)) = 130
    /\ Cardinality(Ids(scan.result)) = 130
    /\ scan.queries = 4

\* the stored history entries that record a write to messages/{message_id}
HistoryOfMessage(s, message_id) ==
    {h \in HistoryOf(s) : h.db_update_path = LocalPathForRef(MessageRef(message_id))}
ReadIds == {obs.read.result[i].history_entry_id : i \in 1..Len(obs.read.result)}
SetReturns == CallReturns /\ lastOp'.op = "set_message"

\* C11: get_history_for_message(id) returns exactly the stored history entries whose
\* db_update_path is the path of message id, so after a committed set_message it returns
\* the entry that call created.
C11_ReturnsHistoryOfMessage ==
    obs.read.op = "get_history_for_message" =>
        ReadIds = {h.history_entry_id : h \in HistoryOfMessage(store, obs.read.message_id)}

\* C12: delete_message_and_history without a transaction, on a stored message, leaves
\* neither the message document nor any history entry of that message in the store.
C12_DeletesMessageAndHistory ==
    [][(del.pc = "read" /\ del.message # <<>> /\ ~del.use_tx /\ CallReturns) =>
           /\ MessageRef(del.message_id) \notin DOMAIN store'
           /\ HistoryOfMessage(store', del.message_id) = {}]_vars

\* C13: a get_message or get_history_for_message of id that follows a completed
\* delete_message_and_history(id) returns an empty result.
C13_ReadsEmptyAfterDelete ==
    (/\ obs.last.op = "delete_message_and_history"
     /\ obs.read.op \in {"get_message", "get_history_for_message"}
     /\ obs.read.message_id = obs.last.arg[1]) =>
        obs.read.result = <<>>

C13_Witness ==
    /\ obs.last.op = "delete_message_and_history"
    /\ obs.read.op = "get_message"
    /\ obs.read.message_id = obs.last.arg[1]
    /\ obs.read.result = <<>>
    /\ \E h \in HistoryOf(store) : h.updated_doc.message_id = obs.read.message_id

\* C14: delete_message_and_history of an id without message document returns normally,
\* deletes no message document, and leaves no history entry of that id in the store.
C14_DeletesOrphanedHistory ==
    [][(del.pc = "read" /\ del.message = <<>> /\ ~del.use_tx /\ CallReturns) =>
           /\ lastOp'.outcome = "ok"
           /\ MessagesOf(store') = MessagesOf(store)
           /\ HistoryOfMessage(store', del.message_id) = {}]_vars

\* C15: get_message leaves the store as it is; it returns None (the empty sequence) for an
\* id without document and the document's message for an id with one.
C15_PointLookup ==
    [][(obs'.read.op = "get_message" /\ obs'.read # obs.read) =>
           /\ store' = store
           /\ tx' = tx
           /\ IF MessageRef(obs'.read.message_id) \in DOMAIN store
              THEN obs'.read.result = <<MessageFromDict(store[MessageRef(obs'.read.message_id)])>>
              ELSE obs'.read.result = <<>>]_vars

C15_Witness ==
    /\ obs.read.op = "get_message"
    /\ obs.read.result = <<>>
    /\ MessagesOf(store) # {}

\* C16: a get_message of m.message_id that follows a committed set_message(m, origin)
\* returns a message with m's text, status, direction and dataset and a last_updated that
\* is set.
C16_ReadsBackWhatWasSet ==
    (/\ obs.last.op = "set_message" /\ obs.last.outcome = "ok"
     /\ obs.read.op = "get_message"
     /\ obs.read.message_id = obs.last.arg[1].message_id) =>
        /\ Len(obs.read.result) = 1
        /\ obs.read.result[1].text = obs.last.arg[1].text
        /\ obs.read.result[1].status = obs.last.arg[1].status
        /\ obs.read.result[1].direction = obs.last.arg[1].direction
        /\ obs.read.result[1].dataset = obs.last.arg[1].dataset
        /\ obs.read.result[1].last_updated \notin {None, SERVER_TIMESTAMP}

\* Scenario A
C16_Witness ==
    /\ obs.last.op = "set_message" /\ obs.last.outcome = "ok"
    /\ obs.last.arg[1] = Message(1, "hello", "in", "live", "d1", None)
    /\ obs.read.op = "get_message" /\ obs.read.message_id = 1
    /\ obs.read.result = <<Message(1, "hello", "in", "live", "d1", clock)>>

\* C17: the message document a returning set_message wrote has last_updated equal to the
\* write time of its commit, a new time, whatever last_updated the caller's message carries.
C17_LastUpdatedIsWriteTime ==
    [][(SetReturns /\ obs'.last.op = "set_message" /\ obs'.last.outcome = "ok") =>
           /\ clock' > clock
           /\ store'[MessageRef(obs'.last.arg[1].message_id)].last_updated = clock']_vars

C17_Witness ==
    /\ obs.last.op = "set_message" /\ obs.last.outcome = "ok"
    /\ obs.last.arg[1].last_updated = 9
    /\ store[MessageRef(obs.last.arg[1].message_id)].last_updated = clock
    /\ clock < 9

\* C18: a set_message on a message_id that already has a document fails and leaves the
\* stored document as it is.
C18_SecondSetFailsAlreadyExists ==
    [][(/\ SetReturns /\ obs'.last.op = "set_message"
        /\ MessageRef(obs'.last.arg[1].message_id) \in DOMAIN store) =>
           /\ obs'.last.outcome = "error"
           /\ store' = store]_vars

\* C19: constructing a HistoryEntryOrigin with details that are not JSON-serializable
\* fails, and details are validated again at to_dict: a set_message whose origin holds such
\* details raises, and no stored history entry carries them.
C19_DetailsValidated ==
    /\ (obs.last.op = "new_origin" /\ obs.last.arg[1] # "primitives") =>
           obs.last.outcome = "error"
    /\ (obs.last.op = "set_message" /\ obs.last.arg[2].details # "primitives") =>
           obs.last.outcome = "error"
    /\ \A h \in HistoryOf(store) : h.origin.details = "primitives"

C19_Witness ==
    /\ obs.last.op = "new_origin"
    /\ obs.last.arg[1] = "object"
    /\ obs.last.outcome = "error"
    /\ obs.origin = <<>>
    /\ store = <<>>

\* C20: every message document that is in the store or staged on the caller's context has
\* its status in MessageStatuses and its direction in MessageDirections: a set_message
\* with a message outside them raises and writes and stages nothing.
C20_ValidMessagesOnly ==
    /\ \A d \in MessagesOf(store) :
          d.status \in MessageStatuses /\ d.direction \in MessageDirections
    /\ \A i \in MessageWrites(tx.writes) :
          tx.writes[i].op = "set" =>
              /\ tx.writes[i].doc.status \in MessageStatuses
              /\ tx.writes[i].doc.direction \in MessageDirections

\* a set_message that raised and left the open context empty: its message was rejected
C20_Witness ==
    /\ lastOp.op = "set_message" /\ lastOp.tx /\ lastOp.outcome = "error"
    /\ tx.open
    /\ tx.writes = <<>>

\* C22: a set_command_log_entry call without a transaction completes normally, having
\* written exactly one new document in the command_logs collection, and leaves the
\* messages and history collections as they were.
C22_WritesOneCommandLogEntry ==
    [][(CallReturns /\ lastOp'.op = "set_command_log_entry" /\ ~lastOp'.tx) =>
          /\ lastOp'.outcome = "ok"
          /\ Cardinality({p \in DOMAIN store' : p[1] = "command_logs"} \ DOMAIN store) = 1
          /\ MessagesOf(store') = MessagesOf(store)
          /\ HistoryOf(store') = HistoryOf(store)]_vars

\* the history documents of a store, by path
HistoryDocs(s) == {<<p, s[p]>> : p \in {q \in DOMAIN s : q[1] = "history"}}
\* the writes staged on the context all come from set_message calls that returned
OnlySetMessageStaged == Len(tx.writes) = 2 * tx.set_calls

\* C23: a set_message call, and the commit of a context on which only set_message calls
\* staged writes, leaves every stored history entry under its path with its content: the
\* set of history entries only grows, and a returning set_message adds its entry under an
\* id that no stored entry has.
C23_HistoryOnlyGrows ==
    [][/\ (SetReturns \/ (CallReturns /\ lastOp'.op = "commit" /\ OnlySetMessageStaged)) =>
             HistoryDocs(store) \subseteq HistoryDocs(store')
       /\ (SetReturns /\ lastOp'.outcome = "ok" /\ ~lastOp'.tx) =>
             Cardinality(HistoryDocs(store')) = Cardinality(HistoryDocs(store)) + 1]_vars

\* two committed set_message calls on one message: the store holds the entry of the first
\* next to the entry of the second
C23_Witness ==
    /\ lastOp.op = "set_message" /\ lastOp.outcome = "ok" /\ ~lastOp.tx
    /\ \E h1, h2 \in HistoryOf(store) :
          /\ h1.db_update_path = h2.db_update_path
          /\ h1.history_entry_id # h2.history_entry_id
          /\ h1.timestamp > 0 /\ h2.timestamp > h1.timestamp

\* C21: on a store that holds a history entry whose doc_type is not the message document
\* kind, a get_history that fetches it raises, and so does get_history_for_message for the
\* message whose path the entry records: neither returns a result that leaves the entry out.
C21_UnknownDocTypeRaises ==
    /\ (scan.pc # "idle" /\ scan.queries = 1 /\ scan.filter = NoFilter /\ scan.last_page > 0
        /\ \E h \in HistoryOf(store) : UnknownDocType(h) /\ h.timestamp = 0) =>
           scan.pc = "error"
    /\ (obs.read.op = "get_history_for_message"
        /\ \E h \in HistoryOfMessage(store, obs.read.message_id) : UnknownDocType(h)) =>
           obs.read.outcome = "error"

\* the ids of the entries a get_history returned
HistoryResultIds == {scan.result[i].history_entry_id : i \in 1..Len(scan.result)}

\* C30: a batched get_history whose filter sets no limit, on a store that no one writes,
\* returns each entry once, returns every stored entry whose timestamp is not later than
\* the latest timestamp in the result, and returns the ids that the call without
\* batch_size returns.
C30_BatchedHistoryConsistent ==
    (scan.pc = "done" /\ Batched /\ scan.filter.limit = NoLimit) =>
        /\ Len(scan.result) = Cardinality(HistoryResultIds)
        /\ \A h \in HistoryOf(store) :
              (\E i \in 1..Len(scan.result) : h.timestamp <= scan.result[i].timestamp) =>
                  h.history_entry_id \in HistoryResultIds
        /\ HistoryResultIds =
              {h.history_entry_id : h \in
                  {GetHistoryUnbatched(store, scan.filter)[i] :
                      i \in 1..Len(GetHistoryUnbatched(store, scan.filter))}}

\* the ids of the messages that are in the store at every instant of the scan
PresentThroughout ==
    {id \in MessageIds : \A docs \in ghost.seen : \E d \in docs : d.message_id = id}
\* the versions of message_id that the store held during the scan
VersionsSeen(message_id) ==
    {d \in UNION ghost.seen : d.message_id = message_id}

\* C29: when a batched get_messages with no filter returns, its result holds every message
\* that was in the store at every instant from the first page query to the last, however
\* often set_message rewrote it meanwhile.
C29_NoMessageMissed ==
    (scan.pc = "done" /\ Batched /\ scan.filter = NoFilter) =>
        PresentThroughout \subseteq Ids(scan.result)

\* a finished batched scan with no filter during which one message was rewritten twice and
\* never deleted: the result holds it
C29_Witness ==
    /\ scan.pc = "done" /\ Batched /\ scan.filter = NoFilter
    /\ \E id \in PresentThroughout :
          /\ Cardinality(VersionsSeen(id)) = 3
          /\ id \in Ids(scan.result)

\* C27: every message document in the store has a history entry that records its path, and
\* an entry of that path whose timestamp no other entry of the path exceeds has the stored
\* document as its updated_doc.
C27_LatestEntryIsStoredDoc ==
    \A d \in MessagesOf(store) :
        /\ HistoryOfMessage(store, d.message_id) # {}
        /\ \A h \in HistoryOfMessage(store, d.message_id) :
              (\A g \in HistoryOfMessage(store, d.message_id) : g.timestamp <= h.timestamp) =>
                  h.updated_doc = d

\* what the store holds for message_id, write times left out: the message document and the
\* history entries that record its path
ContentsFor(s, message_id) ==
    [message |-> IF MessageRef(message_id) \in DOMAIN s
                 THEN <<[s[MessageRef(message_id)] EXCEPT !.last_updated = 0]>>
                 ELSE <<>>,
     history |-> {[h EXCEPT !.timestamp = 0, !.updated_doc.last_updated = 0] :
                     h \in HistoryOfMessage(s, message_id)}]
\* both calls have returned, and they were on the same message id
BothReturned ==
    /\ obs.last.op = "set_message"
    /\ obs.read.op = "get_message" /\ del.pc = "idle"
    /\ obs.last.arg[1].message_id = obs.read.message_id
SetThenDelete ==
    AfterDeleteMessageAndHistory(
        AfterSetMessage(ghost.start, obs.last.arg[1], obs.last.arg[2], nextUuid - 1, clock - 1),
        obs.read.message_id, clock)
DeleteThenSet ==
    AfterSetMessage(AfterDeleteMessageAndHistory(ghost.start, obs.read.message_id, clock - 1),
                    obs.last.arg[1], obs.last.arg[2], nextUuid - 1, clock)

C26_RoundTrip ==
    /\ obs.last.op = "to_dict" => obs.last.outcome = "ok"
    /\ obs.read.op = "from_dict" =>
          [obs.read.result[1] EXCEPT !.last_updated = NoneTime] =
          [obs.last.arg[1] EXCEPT !.last_updated = NoneTime]

\* C24: a running or finished _auto_retry has called f at most max_retries + 1 times; it has
\* slept once after every transient failure but the last possible one, the i-th sleep
\* lasting backoff_seconds * 2^(i-1); and when max_retries + 1 calls have failed, the error
\* is raised, out of _auto_retry and out of the update_or_create that called it.
C24_BoundedRetries ==
    LET r == drive.retry
    IN /\ r.calls <= r.args.max_retries + 1
       /\ \A i \in 1..Len(r.slept) : r.slept[i] = r.args.backoff_seconds * (2 ^ (i - 1))
       /\ r.outcome = "running" => Len(r.slept) = r.calls /\ r.failed = r.calls
       /\ r.failed = r.args.max_retries + 1 => r.outcome = "raised" /\ drive.pc = "raised"
       /\ r.outcome = "returned" => r.failed = r.calls - 1

\* two retries failed after the first call failed: the third failure was raised
C24_Witness ==
    /\ drive.retry.args.max_retries = 2
    /\ drive.retry.args.backoff_seconds = 3
    /\ drive.retry.slept = <<3, 6>>
    /\ drive.retry.calls = 3
    /\ drive.retry.outcome = "raised"

\* the files of a name in a folder
Named(files, name) == {f \in files : f.name = name}

C31_PageLoopsEnd == (scan.pc # "idle") ~> (scan.pc = "done")

\* a batched read that returned after four queries, a write having been committed between
\* two of its pages
C31_Witness ==
    /\ scan.pc = "done" /\ Batched
    /\ scan.queries = 4
    /\ lastOp.n > 1

\* the store s with document d at path p, and without a document at path p
StoreWith(s, p, d) == [q \in DOMAIN s \cup {p} |-> IF q = p THEN d ELSE s[q]]
StoreWithout(s, p) == [q \in DOMAIN s \ {p} |-> s[q]]
\* the paths at which two stores differ
Differing(s1, s2) ==
    {p \in DOMAIN s1 \cup DOMAIN s2 :
        IF p \in DOMAIN s1 /\ p \in DOMAIN s2 THEN s1[p] # s2[p] ELSE TRUE}
BypassOps == {"restore_doc", "delete_doc", "restore_history_entry"}

\* C32: restore_doc, delete_doc and restore_history_entry write or remove the document at
\* the one path they are given and no other: without a transaction the store differs in at
\* most that path (restore_doc leaves the given document there, delete_doc leaves none,
\* restore_history_entry leaves the given entry), with a transaction the one write is
\* staged and the store is as before; restore_doc and delete_doc on a message path leave
\* the history collection as it was, restore_history_entry leaves the messages.
C32_BypassWritesOnePath ==
    [][(CallReturns /\ lastOp'.op \in BypassOps) =>
          IF lastOp'.tx
          THEN /\ store' = store
               /\ Len(tx'.writes) <= Len(tx.writes) + 1
               /\ SubSeq(tx'.writes, 1, Len(tx.writes)) = tx.writes
          ELSE /\ Cardinality(Differing(store, store')) <= 1
               /\ lastOp'.op = "restore_doc" =>
                     /\ \E d \in ExportedMessages :
                           store' = StoreWith(store, MessageRef(d.message_id), MessageToDict(d))
                     /\ HistoryDocs(store') = HistoryDocs(store)
               /\ lastOp'.op = "delete_doc" =>
                     \E r \in DeletableRefs :
                        /\ store' = StoreWithout(store, r)
                        /\ r[1] = "messages" => HistoryDocs(store') = HistoryDocs(store)
               /\ lastOp'.op = "restore_history_entry" =>
                     /\ MessagesOf(store') = MessagesOf(store)
                     /\ IF lastOp'.outcome = "ok"
                        THEN \E h \in ExportedHistoryEntries :
                                store' = StoreWith(store, HistoryEntryRef(h.history_entry_id),
                                                   HistoryEntryToDict(h))
                        ELSE store' = store]_vars

\* a delete_doc removed a message that set_message had written: the history entry of the
\* write is still in the store, and no message document is
C32_Witness ==
    /\ lastOp.op = "delete_doc" /\ ~lastOp.tx
    /\ MessagesOf(store) = {}
    /\ \E h \in HistoryOf(store) : h.timestamp > 0

\* C33: a set_message of a valid message succeeds whatever status the stored message of
\* that id has and whatever status the new message has, and the stored status is then the
\* new one: no pair of statuses is refused.
C33_AnyStatusChange ==
    [][(SetReturns /\ obs'.last.op = "set_message") =>
          LET message == obs'.last.arg[1]
          IN /\ lastOp'.outcome = "ok"
             /\ MessageRef(message.message_id) \in DOMAIN store'
             /\ store'[MessageRef(message.message_id)].status = message.status]_vars

\* a message stored as archived was set again as live: it is stored as live, and the
\* history holds the archived version
C33_Witness ==
    /\ obs.last.op = "set_message" /\ obs.last.outcome = "ok"
    /\ obs.last.arg[1].status = "live"
    /\ store[MessageRef(obs.last.arg[1].message_id)].status = "live"
    /\ \E h \in HistoryOfMessage(store, obs.last.arg[1].message_id) :
          h.updated_doc.status = "archived"

\* C34: when set_message returns or raises, the message object the caller passed has the
\* last_updated and every other field it had before the call; the stored document carries
\* the write time.
C34_CallerMessageUnchanged ==
    [][(SetReturns /\ obs'.last.op = "set_message" /\ obs.objects # <<>>) =>
          /\ obs'.objects = obs.objects
          /\ lastOp'.outcome = "ok" =>
                store'[MessageRef(obs.objects[1].message_id)].last_updated = clock']_vars

\* a set_message returned: the stored document has the write time, the caller's message
\* still has no last_updated
C34_Witness ==
    /\ obs.last.op = "set_message" /\ obs.last.outcome = "ok"
    /\ obs.objects # <<>>
    /\ obs.objects[1].last_updated = None
    /\ store[MessageRef(obs.objects[1].message_id)].last_updated = clock
    /\ clock > 0

\* C35: an _auto_retry in which some call of f returned hands that call's result to
\* update_or_create, also after failed calls were retried: past _get_path_id the target
\* folder id is the id Drive returned, and update_or_create raises only when a Drive call
\* raised out of _auto_retry.
C35_RetryReturnsResult ==
    /\ drive.pc \in {"list", "delete", "update", "create", "returned", "exited"} =>
          drive.target_folder_id = <<TargetFolderId>>
    /\ drive.pc = "raised" => drive.retry.outcome = "raised"

\* isinstance(ex, HttpError): an HttpError or an instance of its subclass
IsHttpError(ex) == ex.type \in {"HttpError", "ResumableUploadError"}

\* C36: _auto_retry does not retry a non-transient failure: once f has raised an HttpError
\* whose status is not 500 or 503, the error is raised from that attempt, with no wait and
\* no further call of f, whatever max_retries is
C36_NonTransientNotRetried ==
    (IsHttpError(drive.retry.ex) /\ drive.retry.ex.status \notin {500, 503}) =>
        /\ drive.retry.outcome = "raised"
        /\ Len(drive.retry.slept) = drive.retry.calls - 1

\* C37: update_or_create never issues an update or a delete request for a Drive folder
C37_FolderNeverUpdatedOrDeleted ==
    /\ drive.pc = "update" =>
          FileOfId(drive.files, drive.existing_file).mimeType # DRIVE_FOLDER_TYPE
    /\ drive.pc = "delete" =>
          FileOfId(drive.files, drive.todo[1]).mimeType # DRIVE_FOLDER_TYPE

\* C38: the deletion tool deletes only after the user confirms: query_yes_no returns True
\* for yes/y/ye, False for no/n, the default (yes) on empty input and asks again on any
\* other input, and after the answer no delete_mappings is not called
C38_DeletesOnlyAfterConfirmation ==
    tool.choice # <<>> =>
       /\ tool.choice[1] \in {"yes", "y", "ye", ""} => tool.proceed = <<TRUE>>
       /\ tool.choice[1] \in {"no", "n"} => tool.proceed = <<FALSE>> /\ tool.delete_calls = 0
       /\ tool.choice[1] = "maybe" => tool.proceed = <<>> /\ tool.delete_calls = 0

\* the snapshot document of the create_snapshot call that is running or ran last
SnapshotDocPath == SnapshotPath(dashboard'.series_id, dashboard'.snapshot[1].snapshot_id)

\* C39: creat_snapshot_doc_in_firestore on a path that holds a snapshot document fails and
\* leaves the documents as they were; create_snapshot writes the snapshot document only
\* when every file of the call is uploaded, and a failed upload leaves no snapshot document
C39_CreateModeAfterUploads ==
    [][/\ (/\ dashboard'.calls # dashboard.calls
           /\ dashboard'.op = "creat_snapshot_doc_in_firestore"
           /\ dashboard'.path[1] \in DOMAIN dashboard.docs) =>
              dashboard'.outcome = "AlreadyExists" /\ dashboard'.docs = dashboard.docs
       /\ (dashboard'.op = "create_snapshot" /\ dashboard'.docs # dashboard.docs) =>
              \A i \in 1..Len(dashboard'.files) :
                 SnapshotBlobName(dashboard'.series_id, dashboard'.snapshot[1].snapshot_id,
                                  dashboard'.files[i]) \in dashboard'.blobs
       /\ (dashboard'.op = "create_snapshot" /\ dashboard'.outcome = "upload failed") =>
              SnapshotDocPath \notin DOMAIN dashboard'.docs]_vars

\* a create on a path that holds a document has failed, after a create_snapshot that wrote
\* its document and one that an upload failed
C39_Witness ==
    /\ dashboard.outcome = "AlreadyExists"
    /\ dashboard.failed_uploads > 0
    /\ \E p \in DOMAIN dashboard.docs : p[2] > 100 /\ dashboard.docs[p].datasets # <<>>

OriginFields == {"user", "project", "pipeline", "commit"}
DefaultOf(o, field) ==
    IF field = "user" THEN o.default_user
    ELSE IF field = "project" THEN o.default_project
    ELSE IF field = "pipeline" THEN o.default_pipeline
    ELSE o.default_commit
Constructs == origins' # origins /\ origins'.last # "set_defaults"
NewestOrigin == origins'.objects[Len(origins'.objects)]

\* C40: an origin constructed without an argument takes the default that is current for it,
\* an argument that is passed overrides the default, a construction that omits an argument
\* whose default is unset fails, and set_defaults changes no origin constructed before it
C40_OriginDefaults ==
    [][/\ origins'.last = "set_defaults" => origins'.objects = origins.objects
       /\ Constructs =>
             LET args == origins'.args[1]
             IN /\ \A field \in OriginFields : DefaultOf(origins', field) = DefaultOf(origins, field)
                /\ SubSeq(origins'.objects, 1, Len(origins.objects)) = origins.objects
                /\ IF \E field \in OriginFields : args[field] = <<>> /\ DefaultOf(origins, field) = <<>>
                   THEN origins'.last = "AssertionError" /\ origins'.objects = origins.objects
                   ELSE args.details = "primitives" =>
                           /\ Len(origins'.objects) = Len(origins.objects) + 1
                           /\ \A field \in OriginFields :
                                 NewestOrigin[field] =
                                    IF args[field] = <<>> THEN DefaultOf(origins, field)[1]
                                    ELSE args[field][1]]_vars

\* the newest origin took the current default user and an explicit commit that is not the
\* default commit, and an earlier origin keeps a user that is no longer the default
C40_Witness ==
    /\ origins.last = "constructed"
    /\ Len(origins.objects) = 2
    /\ origins.args[1].user = <<>>
    /\ origins.objects[2].user = origins.default_user[1]
    /\ origins.objects[1].user # origins.default_user[1]
    /\ origins.args[1].commit # <<>>
    /\ origins.default_commit # <<>>
    /\ origins.objects[2].commit # origins.default_commit[1]

====
